---------------------------- MODULE Spec2Model ----------------------------
(***************************************************************************)
(* A model of protoc-gen-seaorm: the option cache and the option parsers   *)
(* of src/options.rs, the oneof compiler of src/codegen/oneof.rs and the   *)
(* plugin binary of src/main.rs.                                           *)
(*                                                                         *)
(* Text is a TLA+ string, scanned character by character with SubSeq as    *)
(* the code scans it with char_indices.  Option<T> is a sequence of length *)
(* at most one: <<>> is None and <<v>> is Some(v).                         *)
(***************************************************************************)
EXTENDS Integers, Sequences, FiniteSets, TLC

None == <<>>

Some(v) == <<v>>

IsSome(o) == o # <<>>

Unwrap(o) == o[1]

\* `let x = value; Body(x)`: the value is computed once and bound.
LetIn(value, Body(_)) == CHOOSE r \in {Body(x) : x \in {value}} : TRUE

(***************************************************************************)
(* str helpers of the Rust standard library used by options.rs.            *)
(***************************************************************************)
CharAt(s, i) == SubSeq(s, i, i)

IsWhitespace(c) == c \in {" ", "\t", "\n"}

RECURSIVE trim_start(_)
trim_start(s) ==
    IF Len(s) > 0 /\ IsWhitespace(CharAt(s, 1)) THEN trim_start(Tail(s)) ELSE s

RECURSIVE trim_end(_)
trim_end(s) ==
    IF Len(s) > 0 /\ IsWhitespace(CharAt(s, Len(s)))
    THEN trim_end(SubSeq(s, 1, Len(s) - 1))
    ELSE s

trim(s) == trim_end(trim_start(s))

starts_with(s, p) == Len(s) >= Len(p) /\ SubSeq(s, 1, Len(p)) = p

ends_with(s, p) ==
    Len(s) >= Len(p) /\ SubSeq(s, Len(s) - Len(p) + 1, Len(s)) = p

\* str::find: the 1-based position of the first occurrence of p in s, 0 if none.
find(s, p) ==
    LET hits == {i \in 1..(Len(s) - Len(p) + 1) : SubSeq(s, i, i + Len(p) - 1) = p}
    IN  IF hits = {} THEN 0 ELSE CHOOSE i \in hits : \A j \in hits : i <= j

\* str::split_once(c): None, or Some(<<before, after>>) at the first c.
split_once(s, c) ==
    LET i == find(s, c)
    IN  IF i = 0 THEN None
        ELSE Some(<<SubSeq(s, 1, i - 1), SubSeq(s, i + 1, Len(s))>>)

\* str::split(c): every piece between occurrences of c, empty pieces included.
RECURSIVE split(_, _)
split(s, c) ==
    LET i == find(s, c)
    IN  IF i = 0 THEN <<s>>
        ELSE <<SubSeq(s, 1, i - 1)>> \o split(SubSeq(s, i + 1, Len(s)), c)

(***************************************************************************)
(* The typed option records (seaorm::MessageOptions, ...), each at its     *)
(* Default value.                                                          *)
(***************************************************************************)
DefaultMessageOptions ==
    [table_name |-> "", skip |-> FALSE, indexes |-> <<>>, relations |-> <<>>]

DefaultRelationDef ==
    [name |-> "", type |-> "Unspecified", related |-> "", foreign_key |-> "",
     references |-> "", through |-> ""]

DefaultFieldOptions ==
    [primary_key |-> FALSE, auto_increment |-> FALSE, unique |-> FALSE,
     nullable |-> FALSE, column_name |-> "", column_type |-> "",
     default_value |-> "", embed |-> FALSE, has_one |-> "", has_many |-> "",
     belongs_to |-> "", belongs_to_from |-> "", belongs_to_to |-> "",
     has_many_via |-> ""]

DefaultEnumOptions == [name |-> "", db_type |-> "", skip |-> FALSE]

DefaultEnumValueOptions == [name |-> "", string_value |-> "", int_value |-> 0]

DefaultOneofOptions ==
    [strategy |-> "", column_prefix |-> "", discriminator_column |-> ""]

\* prost_types::UninterpretedOption with every value field unset.
DefaultUninterpretedOption ==
    [name |-> <<>>, identifier_value |-> None, positive_int_value |-> None,
     negative_int_value |-> None, string_value |-> None,
     aggregate_value |-> None]

(***************************************************************************)
(* The text scanners of the uninterpreted-option fallback.                 *)
(***************************************************************************)
\* s[1..s.len() - 1] is out of range for a lone quote character: the slice
\* panics there.
parse_quoted_string_panics(s0) ==
    LetIn(trim(s0), LAMBDA s :
        /\ \/ (starts_with(s, "\"") /\ ends_with(s, "\""))
           \/ (starts_with(s, "'") /\ ends_with(s, "'"))
        /\ Len(s) < 2)

parse_quoted_string(s0) ==
    LetIn(trim(s0), LAMBDA s :
        IF \/ (starts_with(s, "\"") /\ ends_with(s, "\""))
           \/ (starts_with(s, "'") /\ ends_with(s, "'"))
        THEN SubSeq(s, 2, Len(s) - 1)
        ELSE s)

split_aggregate_parts(aggregate) == split(aggregate, ",")

\* The scan of split_aggregate_parts_simple from character i on: start is the
\* 1-based position of the first character of the current part.  On i32,
\* saturating_sub(1) is a plain decrement above i32::MIN.
RECURSIVE split_simple_scan(_, _, _, _, _, _)
split_simple_scan(s, i, start, brace_depth, bracket_depth, parts) ==
    IF i > Len(s)
    THEN IF start <= Len(s) THEN Append(parts, SubSeq(s, start, Len(s))) ELSE parts
    ELSE LET c == CharAt(s, i)
         IN  CASE c = "{" ->
                    split_simple_scan(s, i + 1, start, brace_depth + 1, bracket_depth, parts)
               [] c = "}" ->
                    split_simple_scan(s, i + 1, start, brace_depth - 1, bracket_depth, parts)
               [] c = "[" ->
                    split_simple_scan(s, i + 1, start, brace_depth, bracket_depth + 1, parts)
               [] c = "]" ->
                    split_simple_scan(s, i + 1, start, brace_depth, bracket_depth - 1, parts)
               [] c = "," /\ brace_depth = 0 /\ bracket_depth = 0 ->
                    split_simple_scan(s, i + 1, i + 1, brace_depth, bracket_depth,
                                      Append(parts, SubSeq(s, start, i - 1)))
               [] OTHER ->
                    split_simple_scan(s, i + 1, start, brace_depth, bracket_depth, parts)

split_aggregate_parts_simple(aggregate) ==
    split_simple_scan(aggregate, 1, 1, 0, 0, <<>>)

RECURSIVE extract_balanced_scan(_, _, _, _, _)
extract_balanced_scan(s, open, close, i, depth) ==
    IF i > Len(s) THEN None
    ELSE LET c == CharAt(s, i)
         IN  IF c = open
             THEN extract_balanced_scan(s, open, close, i + 1, depth + 1)
             ELSE IF c = close
                  THEN IF depth - 1 = 0
                       THEN Some(SubSeq(s, 2, i - 1))
                       ELSE extract_balanced_scan(s, open, close, i + 1, depth - 1)
                  ELSE extract_balanced_scan(s, open, close, i + 1, depth)

extract_balanced(s0, open, close) ==
    LetIn(trim(s0), LAMBDA s :
        IF ~starts_with(s, open) THEN None
        ELSE extract_balanced_scan(s, open, close, 1, 0))

\* start is None or Some(position of the first character after the brace).
RECURSIVE extract_objects_scan(_, _, _, _, _)
extract_objects_scan(s, i, start, depth, objects) ==
    IF i > Len(s) THEN objects
    ELSE LET c == CharAt(s, i)
         IN  CASE c = "{" ->
                    extract_objects_scan(s, i + 1,
                        IF depth = 0 THEN Some(i + 1) ELSE start, depth + 1, objects)
               [] c = "}" ->
                    IF depth - 1 = 0
                    THEN extract_objects_scan(s, i + 1, None, 0,
                            IF IsSome(start)
                            THEN Append(objects, SubSeq(s, Unwrap(start), i - 1))
                            ELSE objects)
                    ELSE extract_objects_scan(s, i + 1, start, depth - 1, objects)
               [] OTHER -> extract_objects_scan(s, i + 1, start, depth, objects)

extract_objects(s) == extract_objects_scan(s, 1, None, 0, <<>>)

parse_relation_type(s0) ==
    LetIn(trim(s0), LAMBDA s :
        CASE s \in {"RELATION_TYPE_BELONGS_TO", "belongs_to", "BelongsTo"} -> "BelongsTo"
          [] s \in {"RELATION_TYPE_HAS_ONE", "has_one", "HasOne"} -> "HasOne"
          [] s \in {"RELATION_TYPE_HAS_MANY", "has_many", "HasMany"} -> "HasMany"
          [] s \in {"RELATION_TYPE_MANY_TO_MANY", "many_to_many", "ManyToMany"} -> "ManyToMany"
          [] OTHER -> "Unspecified")

\* One part of an aggregate: None, or Some(<<key, value>>), both trimmed.
KeyValue(part) ==
    LetIn(split_once(part, ":"), LAMBDA kv :
        IF kv = None THEN None
        ELSE Some(<<trim(Unwrap(kv)[1]), trim(Unwrap(kv)[2])>>))

\* `for part in parts { split_once(':') ... match key { ... } }`: the parts
\* without a colon are skipped, the others applied to the record in order.
RECURSIVE FoldKeyValues(_, _, _)
FoldKeyValues(Apply(_, _, _), result, parts) ==
    IF parts = <<>> THEN result
    ELSE LetIn(KeyValue(Head(parts)), LAMBDA kv :
            FoldKeyValues(Apply,
                IF kv = None THEN result
                ELSE Apply(result, Unwrap(kv)[1], Unwrap(kv)[2]),
                Tail(parts)))

apply_relation_key(rel, key, value) ==
    CASE key = "name" -> [rel EXCEPT !.name = parse_quoted_string(value)]
      [] key = "type" -> [rel EXCEPT !.type = parse_relation_type(value)]
      [] key \in {"related", "related_schema"} ->
            [rel EXCEPT !.related = parse_quoted_string(value)]
      [] key = "foreign_key" -> [rel EXCEPT !.foreign_key = parse_quoted_string(value)]
      [] key = "references" -> [rel EXCEPT !.references = parse_quoted_string(value)]
      [] key = "through" -> [rel EXCEPT !.through = parse_quoted_string(value)]
      [] OTHER -> rel

\* parse_single_relation_def without its has_content test: a record for
\* every sub-record, with or without pairs.
ParseRelationDefAlways(s) ==
    LetIn(split_aggregate_parts_simple(s), LAMBDA parts :
        Some(FoldKeyValues(apply_relation_key, DefaultRelationDef, parts)))

parse_single_relation_def(s) ==
    LetIn(split_aggregate_parts_simple(s), LAMBDA parts :
        LET has_content == \E i \in 1..Len(parts) : KeyValue(parts[i]) # None
        IN  IF has_content
            THEN Some(FoldKeyValues(apply_relation_key, DefaultRelationDef, parts))
            ELSE None)

RECURSIVE CollectRelations(_)
CollectRelations(objs) ==
    IF objs = <<>> THEN <<>>
    ELSE parse_single_relation_def(Head(objs)) \o CollectRelations(Tail(objs))

extract_relations_array(s0) ==
    LetIn(trim(s0), LAMBDA s :
        LetIn(IF starts_with(s, "[")
              THEN LetIn(extract_balanced(s, "[", "]"), LAMBDA content :
                      IF content = None THEN None
                      ELSE Some(CollectRelations(extract_objects(Unwrap(content)))))
              ELSE IF starts_with(s, "{")
                   THEN LetIn(extract_balanced(s, "{", "}"), LAMBDA content :
                           IF content = None THEN None
                           ELSE Some(parse_single_relation_def(Unwrap(content))))
                   ELSE Some(<<>>),
              LAMBDA relations :
                  IF relations = None \/ Unwrap(relations) = <<>> THEN None
                  ELSE relations))

apply_message_key(result, key, value) ==
    CASE key = "relations" -> result
      [] key = "table_name" -> [result EXCEPT !.table_name = parse_quoted_string(value)]
      [] key = "skip" -> [result EXCEPT !.skip = (value = "true")]
      [] key = "indexes" ->
            [result EXCEPT !.indexes = Append(@, parse_quoted_string(value))]
      [] OTHER -> result

parse_aggregate_into_message_options(result, aggregate) ==
    LetIn(find(aggregate, "relations:"), LAMBDA rel_start :
        LetIn(IF rel_start = 0 THEN None
              ELSE LetIn(trim(SubSeq(aggregate, rel_start + Len("relations:"),
                                     Len(aggregate))),
                         LAMBDA after_relations : extract_relations_array(after_relations)),
              LAMBDA relations :
                  LetIn(IF relations = None THEN result
                        ELSE [result EXCEPT !.relations = Unwrap(relations)],
                        LAMBDA with_relations :
                            LetIn(split_aggregate_parts_simple(aggregate), LAMBDA parts :
                                FoldKeyValues(apply_message_key, with_relations, parts)))))

apply_field_key(result, key, value) ==
    CASE key = "primary_key" -> [result EXCEPT !.primary_key = (value = "true")]
      [] key = "auto_increment" -> [result EXCEPT !.auto_increment = (value = "true")]
      [] key = "unique" -> [result EXCEPT !.unique = (value = "true")]
      [] key = "nullable" -> [result EXCEPT !.nullable = (value = "true")]
      [] key = "column_name" -> [result EXCEPT !.column_name = parse_quoted_string(value)]
      [] key = "column_type" -> [result EXCEPT !.column_type = parse_quoted_string(value)]
      [] key = "default_value" -> [result EXCEPT !.default_value = parse_quoted_string(value)]
      [] key = "embed" -> [result EXCEPT !.embed = (value = "true")]
      [] key = "has_one" -> [result EXCEPT !.has_one = parse_quoted_string(value)]
      [] key = "has_many" -> [result EXCEPT !.has_many = parse_quoted_string(value)]
      [] key = "belongs_to" -> [result EXCEPT !.belongs_to = parse_quoted_string(value)]
      [] key = "belongs_to_from" ->
            [result EXCEPT !.belongs_to_from = parse_quoted_string(value)]
      [] key = "belongs_to_to" ->
            [result EXCEPT !.belongs_to_to = parse_quoted_string(value)]
      [] key = "has_many_via" -> [result EXCEPT !.has_many_via = parse_quoted_string(value)]
      [] OTHER -> result

parse_aggregate_into_field_options(result, aggregate) ==
    LetIn(split_aggregate_parts(aggregate), LAMBDA parts :
        FoldKeyValues(apply_field_key, result, parts))

apply_enum_key(result, key, value) ==
    CASE key = "name" -> [result EXCEPT !.name = parse_quoted_string(value)]
      [] key = "db_type" -> [result EXCEPT !.db_type = parse_quoted_string(value)]
      [] key = "skip" -> [result EXCEPT !.skip = (value = "true")]
      [] OTHER -> result

parse_aggregate_into_enum_options(result, aggregate) ==
    LetIn(split_aggregate_parts(aggregate), LAMBDA parts :
        FoldKeyValues(apply_enum_key, result, parts))

apply_oneof_key(result, key, value) ==
    CASE key = "strategy" -> [result EXCEPT !.strategy = parse_quoted_string(value)]
      [] key = "column_prefix" ->
            [result EXCEPT !.column_prefix = parse_quoted_string(value)]
      [] key = "discriminator_column" ->
            [result EXCEPT !.discriminator_column = parse_quoted_string(value)]
      [] OTHER -> result

parse_aggregate_into_oneof_options(result, aggregate) ==
    LetIn(split_aggregate_parts(aggregate), LAMBDA parts :
        FoldKeyValues(apply_oneof_key, result, parts))

(***************************************************************************)
(* Uninterpreted options.  An options record of a descriptor is            *)
(* [ext, uninterpreted_option]: ext is the typed extension the raw bytes   *)
(* carry (None or Some(value)), uninterpreted_option the fallback list.    *)
(***************************************************************************)
MODEL_EXTENSION_NAME == "seaorm.model"

FIELD_EXTENSION_NAME == "seaorm.field"

ENUM_EXTENSION_NAME == "seaorm.enum_opt"

ENUM_VALUE_EXTENSION_NAME == "seaorm.enum_value"

ONEOF_EXTENSION_NAME == "seaorm.oneof"

is_extension_option(opt, extension_name) ==
    IF opt.name = <<>> THEN FALSE
    ELSE IF ~opt.name[1].is_extension THEN FALSE
         ELSE opt.name[1].name_part = extension_name

get_subfield_name(opt) ==
    IF Len(opt.name) >= 2 THEN Some(opt.name[2].name_part) ELSE None

parse_bool_option(opt) ==
    IF IsSome(opt.identifier_value) THEN Unwrap(opt.identifier_value) = "true"
    ELSE IF IsSome(opt.positive_int_value) THEN Unwrap(opt.positive_int_value) # 0
         ELSE FALSE

parse_string_option(opt) ==
    IF IsSome(opt.string_value) THEN Unwrap(opt.string_value)
    ELSE IF IsSome(opt.identifier_value) THEN Unwrap(opt.identifier_value)
         ELSE ""

apply_message_option(result, opt) ==
    IF IsSome(opt.aggregate_value)
    THEN parse_aggregate_into_message_options(result, Unwrap(opt.aggregate_value))
    ELSE LET field_name == get_subfield_name(opt)
         IN  CASE field_name = Some("table_name") /\ IsSome(opt.string_value) ->
                    [result EXCEPT !.table_name = Unwrap(opt.string_value)]
               [] field_name = Some("skip") /\ IsSome(opt.identifier_value) ->
                    [result EXCEPT !.skip = (Unwrap(opt.identifier_value) = "true")]
               [] OTHER -> result

apply_single_field_option(result, field_name, opt) ==
    CASE field_name = "primary_key" -> [result EXCEPT !.primary_key = parse_bool_option(opt)]
      [] field_name = "auto_increment" ->
            [result EXCEPT !.auto_increment = parse_bool_option(opt)]
      [] field_name = "unique" -> [result EXCEPT !.unique = parse_bool_option(opt)]
      [] field_name = "nullable" -> [result EXCEPT !.nullable = parse_bool_option(opt)]
      [] field_name = "column_name" -> [result EXCEPT !.column_name = parse_string_option(opt)]
      [] field_name = "column_type" -> [result EXCEPT !.column_type = parse_string_option(opt)]
      [] field_name = "default_value" ->
            [result EXCEPT !.default_value = parse_string_option(opt)]
      [] field_name = "embed" -> [result EXCEPT !.embed = parse_bool_option(opt)]
      [] field_name = "has_one" -> [result EXCEPT !.has_one = parse_string_option(opt)]
      [] field_name = "has_many" -> [result EXCEPT !.has_many = parse_string_option(opt)]
      [] field_name = "belongs_to" -> [result EXCEPT !.belongs_to = parse_string_option(opt)]
      [] field_name = "belongs_to_from" ->
            [result EXCEPT !.belongs_to_from = parse_string_option(opt)]
      [] field_name = "belongs_to_to" ->
            [result EXCEPT !.belongs_to_to = parse_string_option(opt)]
      [] field_name = "has_many_via" ->
            [result EXCEPT !.has_many_via = parse_string_option(opt)]
      [] OTHER -> result

apply_field_option(result, opt) ==
    IF IsSome(opt.aggregate_value)
    THEN parse_aggregate_into_field_options(result, Unwrap(opt.aggregate_value))
    ELSE IF IsSome(get_subfield_name(opt))
         THEN apply_single_field_option(result, Unwrap(get_subfield_name(opt)), opt)
         ELSE result

apply_enum_option(result, opt) ==
    IF IsSome(opt.aggregate_value)
    THEN parse_aggregate_into_enum_options(result, Unwrap(opt.aggregate_value))
    ELSE LET field_name == get_subfield_name(opt)
         IN  CASE field_name = Some("name") -> [result EXCEPT !.name = parse_string_option(opt)]
               [] field_name = Some("db_type") ->
                    [result EXCEPT !.db_type = parse_string_option(opt)]
               [] field_name = Some("skip") -> [result EXCEPT !.skip = parse_bool_option(opt)]
               [] OTHER -> result

apply_oneof_option(result, opt) ==
    IF IsSome(opt.aggregate_value)
    THEN parse_aggregate_into_oneof_options(result, Unwrap(opt.aggregate_value))
    ELSE LET field_name == get_subfield_name(opt)
         IN  CASE field_name = Some("strategy") ->
                    [result EXCEPT !.strategy = parse_string_option(opt)]
               [] field_name = Some("column_prefix") ->
                    [result EXCEPT !.column_prefix = parse_string_option(opt)]
               [] field_name = Some("discriminator_column") ->
                    [result EXCEPT !.discriminator_column = parse_string_option(opt)]
               [] OTHER -> result

\* `for opt in uninterpreted { if is_extension_option(..) { found = true;
\* apply(&mut result, opt) } }`, the loop of every parse_*_from_uninterpreted.
RECURSIVE ApplyMatching(_, _, _, _)
ApplyMatching(Apply(_, _), result, extension_name, uninterpreted) ==
    IF uninterpreted = <<>> THEN result
    ELSE ApplyMatching(Apply,
            IF is_extension_option(Head(uninterpreted), extension_name)
            THEN Apply(result, Head(uninterpreted))
            ELSE result,
            extension_name, Tail(uninterpreted))

Found(extension_name, uninterpreted) ==
    \E i \in 1..Len(uninterpreted) : is_extension_option(uninterpreted[i], extension_name)

parse_message_options_from_uninterpreted(uninterpreted) ==
    IF Found(MODEL_EXTENSION_NAME, uninterpreted)
    THEN Some(ApplyMatching(apply_message_option, DefaultMessageOptions,
                            MODEL_EXTENSION_NAME, uninterpreted))
    ELSE None

parse_field_options_from_uninterpreted(uninterpreted) ==
    IF Found(FIELD_EXTENSION_NAME, uninterpreted)
    THEN Some(ApplyMatching(apply_field_option, DefaultFieldOptions,
                            FIELD_EXTENSION_NAME, uninterpreted))
    ELSE None

parse_enum_options_from_uninterpreted(uninterpreted) ==
    IF Found(ENUM_EXTENSION_NAME, uninterpreted)
    THEN Some(ApplyMatching(apply_enum_option, DefaultEnumOptions,
                            ENUM_EXTENSION_NAME, uninterpreted))
    ELSE None

parse_oneof_options_from_uninterpreted(uninterpreted) ==
    IF Found(ONEOF_EXTENSION_NAME, uninterpreted)
    THEN Some(ApplyMatching(apply_oneof_option, DefaultOneofOptions,
                            ONEOF_EXTENSION_NAME, uninterpreted))
    ELSE None

(***************************************************************************)
(* The extension path: the value of the extension field, projected field   *)
(* by field onto the typed record.                                         *)
(***************************************************************************)
convert_to_relation_def(value) ==
    [name |-> value.name, type |-> value.type, related |-> value.related,
     foreign_key |-> value.foreign_key, references |-> value.references,
     through |-> value.through]

convert_to_message_options(value) ==
    Some([table_name |-> value.table_name,
          skip |-> value.skip,
          indexes |-> value.indexes,
          relations |-> [i \in 1..Len(value.relations) |->
                            convert_to_relation_def(value.relations[i])]])

convert_to_field_options(value) ==
    Some([f \in DOMAIN DefaultFieldOptions |-> value[f]])

convert_to_enum_options(value) ==
    Some([name |-> value.name, db_type |-> value.db_type, skip |-> value.skip])

convert_to_enum_value_options(value) ==
    Some([name |-> value.name, string_value |-> value.string_value,
          int_value |-> value.int_value])

convert_to_oneof_options(value) ==
    Some([strategy |-> value.strategy, column_prefix |-> value.column_prefix,
          discriminator_column |-> value.discriminator_column])

\* prost decodes the request into prost_types structs, which have no field for
\* an unknown extension: every options record loses its ext.
ProstOptions(options) ==
    IF options = None THEN None
    ELSE Some([ext |-> None,
               uninterpreted_option |-> Unwrap(options).uninterpreted_option])

\* opts.encode(&mut buf) of a prost_types options record: empty when the
\* record holds nothing.
EncodedEmpty(opts) == opts.ext = None /\ opts.uninterpreted_option = <<>>

\* parse_*_options_from_extension: re-encode, decode against the pool, test
\* has_extension, convert.
FromExtension(Convert(_), opts) ==
    IF EncodedEmpty(opts) THEN None
    ELSE IF opts.ext = None THEN None
         ELSE Convert(Unwrap(opts.ext))

parse_message_options_from_extension(opts) ==
    FromExtension(convert_to_message_options, opts)

parse_field_options_from_extension(opts) ==
    FromExtension(convert_to_field_options, opts)

parse_enum_options_from_extension(opts) ==
    FromExtension(convert_to_enum_options, opts)

parse_oneof_options_from_extension(opts) ==
    FromExtension(convert_to_oneof_options, opts)

parse_message_options(desc) ==
    IF desc.options = None THEN None
    ELSE LET opts == Unwrap(desc.options)
             result == parse_message_options_from_extension(opts)
         IN  IF IsSome(result) THEN result
             ELSE parse_message_options_from_uninterpreted(opts.uninterpreted_option)

parse_field_options(field) ==
    IF field.options = None THEN None
    ELSE LET opts == Unwrap(field.options)
             result == parse_field_options_from_extension(opts)
         IN  IF IsSome(result) THEN result
             ELSE parse_field_options_from_uninterpreted(opts.uninterpreted_option)

parse_enum_options(enum_desc) ==
    IF enum_desc.options = None THEN None
    ELSE LET opts == Unwrap(enum_desc.options)
             result == parse_enum_options_from_extension(opts)
         IN  IF IsSome(result) THEN result
             ELSE parse_enum_options_from_uninterpreted(opts.uninterpreted_option)

parse_oneof_options(oneof) ==
    IF oneof.options = None THEN None
    ELSE LET opts == Unwrap(oneof.options)
             result == parse_oneof_options_from_extension(opts)
         IN  IF IsSome(result) THEN result
             ELSE parse_oneof_options_from_uninterpreted(opts.uninterpreted_option)

(***************************************************************************)
(* The option cache: five maps, each a function from its key tuples.       *)
(***************************************************************************)
EmptyMap == [k \in {} |-> None]

OptionsCacheDefault ==
    [message_options |-> EmptyMap, field_options |-> EmptyMap,
     enum_options |-> EmptyMap, enum_value_options |-> EmptyMap,
     oneof_options |-> EmptyMap]

CacheMaps == DOMAIN OptionsCacheDefault

\* A faulty insert: a key already present is removed instead of replaced.
InsertRemovingPresent(map, key, value) ==
    IF key \in DOMAIN map
    THEN [k \in DOMAIN map \ {key} |-> map[k]]
    ELSE [k \in DOMAIN map \cup {key} |-> IF k = key THEN value ELSE map[k]]

\* HashMap::insert: the value replaces what the key held.
Insert(map, key, value) ==
    [k \in DOMAIN map \cup {key} |-> IF k = key THEN value ELSE map[k]]

\* cache.<which>.insert(key, value) when the conversion gave Some(value).
InsertSome(cache, which, key, converted) ==
    IF converted = None THEN cache
    ELSE [cache EXCEPT ![which] = Insert(@, key, Unwrap(converted))]

\* The extension value of an options field of the dynamic message, when the
\* descriptor has options and they carry the extension.
ExtensionOf(desc) ==
    IF desc.options = None THEN None ELSE Unwrap(desc.options).ext

\* A faulty qualified name: the name alone, whatever the enclosing message.
FullNameWithoutPrefix(parent_prefix, name) == name

full_name_of(parent_prefix, name) ==
    IF parent_prefix = "" THEN name ELSE parent_prefix \o "." \o name

\* `for (idx, x) in seq.iter().enumerate() { acc = Op(acc, x, idx) }`.
RECURSIVE FoldSeq(_, _, _, _)
FoldSeq(Op(_, _, _), acc, seq, i) ==
    LetIn(acc, LAMBDA a :
        IF i > Len(seq) THEN a
        ELSE FoldSeq(Op, Op(a, seq[i], i - 1), seq, i + 1))

\* The insert of one descriptor: nothing without the extension.
InsertExtension(cache, which, key, desc, Convert(_)) ==
    IF ExtensionOf(desc) = None THEN cache
    ELSE InsertSome(cache, which, key, Convert(Unwrap(ExtensionOf(desc))))

extract_enum_options_nested(cache, file_name, enum_msg, parent_prefix) ==
    LET full_name == full_name_of(parent_prefix, enum_msg.name)
        with_enum == InsertExtension(cache, "enum_options", <<file_name, full_name>>,
                                     enum_msg, convert_to_enum_options)
    IN  FoldSeq(LAMBDA c, value_msg, idx :
                    InsertExtension(c, "enum_value_options",
                                    <<file_name, full_name, value_msg.number>>,
                                    value_msg, convert_to_enum_value_options),
                with_enum, enum_msg.value, 1)

extract_enum_options(cache, file_name, enum_msg) ==
    extract_enum_options_nested(cache, file_name, enum_msg, "")

RECURSIVE extract_message_options(_, _, _, _)
extract_message_options(cache, file_name, msg, parent_prefix) ==
    LET full_name == full_name_of(parent_prefix, msg.name)
        with_model == InsertExtension(cache, "message_options", <<file_name, full_name>>,
                                      msg, convert_to_message_options)
        with_fields ==
            FoldSeq(LAMBDA c, field_msg, idx :
                        InsertExtension(c, "field_options",
                                        <<file_name, full_name, field_msg.number>>,
                                        field_msg, convert_to_field_options),
                    with_model, msg.field, 1)
        with_oneofs ==
            FoldSeq(LAMBDA c, oneof_msg, idx :
                        InsertExtension(c, "oneof_options", <<file_name, full_name, idx>>,
                                        oneof_msg, convert_to_oneof_options),
                    with_fields, msg.oneof_decl, 1)
        with_nested ==
            FoldSeq(LAMBDA c, nested_msg, idx :
                        extract_message_options(c, file_name, nested_msg, full_name),
                    with_oneofs, msg.nested_type, 1)
    IN  FoldSeq(LAMBDA c, enum_msg, idx :
                    extract_enum_options_nested(c, file_name, enum_msg, full_name),
                with_nested, msg.enum_type, 1)

extract_options_from_file(cache, file) ==
    LET with_messages ==
            FoldSeq(LAMBDA c, msg, idx : extract_message_options(c, file.name, msg, ""),
                    cache, file.message_type, 1)
    IN  FoldSeq(LAMBDA c, enum_msg, idx : extract_enum_options(c, file.name, enum_msg),
                with_messages, file.enum_type, 1)

\* The cache after preprocess_request_bytes and what the call returns.  The
\* request is decoded before the lock is taken; a poisoned lock makes
\* write() fail.
preprocess_request_bytes(cache, poisoned, bytes) ==
    IF ~bytes.decodable
    THEN [cache |-> cache, result |-> "Err: Failed to decode CodeGeneratorRequest"]
    ELSE IF poisoned
         THEN [cache |-> cache, result |-> "Err: Lock error"]
         ELSE [cache |-> FoldSeq(LAMBDA c, file, idx : extract_options_from_file(c, file),
                                 cache, bytes.proto_file, 1),
               result |-> "Ok"]

\* A faulty lookup: HashMap::remove in place of get, the entry is taken.
GetCachedRemoving(cache, poisoned, which, key) ==
    [cache |-> IF ~poisoned /\ key \in DOMAIN cache[which]
               THEN [cache EXCEPT ![which] = [k \in DOMAIN @ \ {key} |-> @[k]]]
               ELSE cache,
     panicked |-> FALSE,
     result |-> IF poisoned THEN None
                ELSE IF key \in DOMAIN cache[which] THEN Some(cache[which][key])
                     ELSE None]

\* A faulty lookup: read().unwrap() in place of read().ok(), which panics on
\* a poisoned lock.
GetCachedUnwrapping(cache, poisoned, which, key) ==
    [cache |-> cache,
     panicked |-> poisoned,
     result |-> IF poisoned THEN None
                ELSE IF key \in DOMAIN cache[which] THEN Some(cache[which][key])
                     ELSE None]

\* OPTIONS_CACHE.read().ok().and_then(|cache| cache.<which>.get(&key).cloned()):
\* what the lookup returns, the cache it leaves, and whether it panicked.
GetCached(cache, poisoned, which, key) ==
    [cache |-> cache,
     panicked |-> FALSE,
     result |-> IF poisoned THEN None
                ELSE IF key \in DOMAIN cache[which] THEN Some(cache[which][key])
                     ELSE None]

get_cached_message_options(cache, poisoned, file_name, msg_name) ==
    GetCached(cache, poisoned, "message_options", <<file_name, msg_name>>)

get_cached_field_options(cache, poisoned, file_name, msg_name, field_number) ==
    GetCached(cache, poisoned, "field_options", <<file_name, msg_name, field_number>>)

get_cached_enum_options(cache, poisoned, file_name, enum_name) ==
    GetCached(cache, poisoned, "enum_options", <<file_name, enum_name>>)

get_cached_oneof_options(cache, poisoned, file_name, msg_name, oneof_index) ==
    GetCached(cache, poisoned, "oneof_options", <<file_name, msg_name, oneof_index>>)

(***************************************************************************)
(* The orchestrator and the entity generator (src/generator.rs and         *)
(* src/codegen/entity.rs), as the specification describes them: the        *)
(* request is decoded with prost, each message of a file to generate is    *)
(* dispatched to the entity generator, which consults the option cache     *)
(* first and the descriptor's own options second.                          *)
(***************************************************************************)
UpperCase == "ABCDEFGHIJKLMNOPQRSTUVWXYZ"

LowerCase == "abcdefghijklmnopqrstuvwxyz"

\* Snake case: an upper-case letter becomes lower-case with a preceding
\* underscore unless at position zero or after an underscore.
RECURSIVE to_snake_case_from(_, _)
to_snake_case_from(s, i) ==
    IF i > Len(s) THEN ""
    ELSE LET c == CharAt(s, i)
             u == find(UpperCase, c)
         IN  (IF u = 0 THEN c
              ELSE IF i = 1 \/ CharAt(s, i - 1) = "_" THEN CharAt(LowerCase, u)
                   ELSE "_" \o CharAt(LowerCase, u))
             \o to_snake_case_from(s, i + 1)

to_snake_case(s) == to_snake_case_from(s, 1)

RECURSIVE ProstMessage(_)
ProstMessage(msg) ==
    [msg EXCEPT
        !.options = ProstOptions(@),
        !.field = [i \in 1..Len(@) |-> [@[i] EXCEPT !.options = ProstOptions(@)]],
        !.oneof_decl = [i \in 1..Len(@) |-> [@[i] EXCEPT !.options = ProstOptions(@)]],
        !.nested_type = [i \in 1..Len(msg.nested_type) |-> ProstMessage(msg.nested_type[i])],
        !.enum_type = [i \in 1..Len(@) |->
            [@[i] EXCEPT !.options = ProstOptions(@),
                         !.value = [j \in 1..Len(@) |->
                                        [@[j] EXCEPT !.options = ProstOptions(@)]]]]]

\* CodeGeneratorRequest::decode(bytes).
ProstDecode(bytes) ==
    [bytes EXCEPT !.proto_file = [i \in 1..Len(@) |->
        [@[i] EXCEPT !.message_type = [j \in 1..Len(@) |-> ProstMessage(@[j])]]]]

\* entity::generate: None (skip) or Some(emitted file).
generate_entity(cache, poisoned, file, message) ==
    LET cached == get_cached_message_options(cache, poisoned, file.name, message.name).result
    IN  LetIn(IF IsSome(cached) THEN cached ELSE parse_message_options(message),
              LAMBDA options :
                  IF options = None THEN None
                  ELSE IF Unwrap(options).skip THEN None
                       ELSE Some([name |-> to_snake_case(message.name) \o ".rs",
                                  entity |-> message.name,
                                  table_name |-> IF Unwrap(options).table_name = ""
                                                 THEN to_snake_case(message.name)
                                                 ELSE Unwrap(options).table_name]))

\* generator::generate: the files of every message of every file to generate.
generate(cache, poisoned, request) ==
    [error |-> None,
     file |-> FoldSeq(LAMBDA files, file, idx :
                 IF \E k \in 1..Len(request.file_to_generate) :
                        request.file_to_generate[k] = file.name
                 THEN FoldSeq(LAMBDA fs, message, j :
                                 fs \o generate_entity(cache, poisoned, file, message),
                              files, file.message_type, 1)
                 ELSE files,
              <<>>, request.proto_file, 1)]

\* generator::generate_from_bytes: preprocess, decode, generate.  The cache
\* it leaves and Ok(response) or Err(error).
generate_from_bytes(cache, poisoned, bytes) ==
    LetIn(preprocess_request_bytes(cache, poisoned, bytes), LAMBDA pre :
        IF pre.result # "Ok"
        THEN [cache |-> pre.cache, ok |-> FALSE, error |-> pre.result,
              response |-> None]
        ELSE LetIn(ProstDecode(bytes), LAMBDA request :
                [cache |-> pre.cache, ok |-> TRUE, error |-> "",
                 response |-> Some(generate(pre.cache, poisoned, request))]))

\* The slice of parse_quoted_string panics on a part of an aggregate: a key
\* whose arm calls parse_quoted_string, with a lone quote character as value.
PartsPanic(parts, quoted_keys) ==
    \E i \in 1..Len(parts) :
        LetIn(KeyValue(parts[i]), LAMBDA kv :
            /\ kv # None
            /\ Unwrap(kv)[1] \in quoted_keys
            /\ parse_quoted_string_panics(Unwrap(kv)[2]))

parse_single_relation_def_panics(s) ==
    PartsPanic(split_aggregate_parts_simple(s),
               {"name", "related", "related_schema", "foreign_key", "references", "through"})

extract_relations_array_panics(s0) ==
    LetIn(trim(s0), LAMBDA s :
        IF starts_with(s, "[")
        THEN LetIn(extract_balanced(s, "[", "]"), LAMBDA content :
                /\ content # None
                /\ LetIn(extract_objects(Unwrap(content)), LAMBDA objs :
                      \E i \in 1..Len(objs) : parse_single_relation_def_panics(objs[i])))
        ELSE IF starts_with(s, "{")
             THEN LetIn(extract_balanced(s, "{", "}"), LAMBDA content :
                     /\ content # None
                     /\ parse_single_relation_def_panics(Unwrap(content)))
             ELSE FALSE)

\* The slice of parse_quoted_string panics while the message aggregate is
\* applied: a value of a relation record, or a table_name or indexes value,
\* that is a lone quote character.
parse_aggregate_into_message_options_panics(aggregate) ==
    \/ LetIn(find(aggregate, "relations:"), LAMBDA rel_start :
          /\ rel_start # 0
          /\ extract_relations_array_panics(
                 trim(SubSeq(aggregate, rel_start + Len("relations:"), Len(aggregate)))))
    \/ PartsPanic(split_aggregate_parts_simple(aggregate), {"table_name", "indexes"})

\* parse_message_options panics: no extension, and a matching uninterpreted
\* aggregate whose application panics.
parse_message_options_panics(desc) ==
    /\ desc.options # None
    /\ parse_message_options_from_extension(Unwrap(desc.options)) = None
    /\ \E i \in 1..Len(Unwrap(desc.options).uninterpreted_option) :
         LET opt == Unwrap(desc.options).uninterpreted_option[i]
         IN  /\ is_extension_option(opt, MODEL_EXTENSION_NAME)
             /\ IsSome(opt.aggregate_value)
             /\ parse_aggregate_into_message_options_panics(Unwrap(opt.aggregate_value))

\* generate_from_bytes panics: the entity generator misses the cache for a
\* message of a file to generate and parse_message_options panics on it.
generate_from_bytes_panics(cache, poisoned, bytes) ==
    LetIn(preprocess_request_bytes(cache, poisoned, bytes), LAMBDA pre :
        /\ pre.result = "Ok"
        /\ LetIn(ProstDecode(bytes), LAMBDA request :
              \E i \in 1..Len(request.proto_file) :
                  /\ \E g \in 1..Len(request.file_to_generate) :
                        request.file_to_generate[g] = request.proto_file[i].name
                  /\ \E j \in 1..Len(request.proto_file[i].message_type) :
                        LET message == request.proto_file[i].message_type[j]
                        IN  /\ get_cached_message_options(pre.cache, poisoned,
                                   request.proto_file[i].name, message.name).result = None
                            /\ parse_message_options_panics(message)))

(***************************************************************************)
(* The requests the model draws from.  Descriptors come from the protobuf  *)
(* compiler: names are present and distinct within a scope.                *)
(***************************************************************************)
MaxCalls == 2

NamePart(name_part, is_extension) ==
    [name_part |-> name_part, is_extension |-> is_extension]

Aggregate(name_part, is_extension, text) ==
    [DefaultUninterpretedOption EXCEPT
        !.name = <<NamePart(name_part, is_extension)>>,
        !.aggregate_value = Some(text)]

SubField(name_part, field_name, identifier) ==
    [DefaultUninterpretedOption EXCEPT
        !.name = <<NamePart(name_part, TRUE), NamePart(field_name, FALSE)>>,
        !.identifier_value = Some(identifier)]

Options(ext, uninterpreted) ==
    Some([ext |-> ext, uninterpreted_option |-> uninterpreted])

Field(name, number, type, oneof_index, options) ==
    [name |-> name, number |-> number, type |-> type, oneof_index |-> oneof_index,
     options |-> options]

Message(name, options, field, oneof_decl, nested_type, enum_type) ==
    [name |-> name, options |-> options, field |-> field, oneof_decl |-> oneof_decl,
     nested_type |-> nested_type, enum_type |-> enum_type]

\* The options a message may carry: none, an empty record, the typed
\* extension, or uninterpreted options of either form.
ModelOptionVariants ==
    { None,
      Options(None, <<>>),
      Options(Some([DefaultMessageOptions EXCEPT !.table_name = "users"]), <<>>),
      Options(Some([DefaultMessageOptions EXCEPT !.skip = TRUE]), <<>>),
      Options(None, <<Aggregate("seaorm.model", TRUE, "skip: true")>>),
      Options(None, <<Aggregate("seaorm.model", TRUE, "table_name: \"users\"")>>),
      Options(None, <<Aggregate("seaorm.model", TRUE, "table_name: \"users\", skip: true")>>),
      Options(None, <<Aggregate("seaorm.field", TRUE, "skip: true")>>),
      Options(None, <<Aggregate("seaorm.model", FALSE, "table_name: \"users\"")>>),
      Options(None, <<SubField("seaorm.model", "skip", "true")>>) }

UserMessages == {Message("User", o, <<>>, <<>>, <<>>, <<>>) : o \in ModelOptionVariants}

KindEnum ==
    [name |-> "Kind",
     options |-> Options(Some([DefaultEnumOptions EXCEPT !.db_type = "string"]), <<>>),
     value |-> << [name |-> "KIND_A", number |-> 0,
                   options |-> Options(Some([DefaultEnumValueOptions EXCEPT
                                                !.string_value = "a"]), <<>>)],
                  [name |-> "KIND_B", number |-> 1, options |-> None] >>]

\* A message with every kind of annotated descriptor below it.
BlogPost ==
    Message("BlogPost",
        Options(Some([DefaultMessageOptions EXCEPT !.table_name = "posts"]), <<>>),
        << Field("id", 1, "Int64", None,
                 Options(Some([DefaultFieldOptions EXCEPT !.primary_key = TRUE]), <<>>)),
           Field("text", 2, "String", Some(0), None) >>,
        << [name |-> Some("body"),
            options |-> Options(Some([DefaultOneofOptions EXCEPT !.strategy = "json"]),
                                <<>>)] >>,
        << Message("Inner", Options(Some(DefaultMessageOptions), <<>>),
                   <<>>, <<>>, <<>>, <<>>) >>,
        << KindEnum >>)

FileName == "a.proto"

\* The message lists of a file: nothing, one User message under each kind of
\* option, or a User message followed by BlogPost.
MessageLists ==
    {<<>>} \cup {<<u>> : u \in UserMessages}
           \cup {<<Message("User", None, <<>>, <<>>, <<>>, <<>>), BlogPost>>,
                 <<Message("User", Options(Some(DefaultMessageOptions), <<>>),
                           <<>>, <<>>, <<>>, <<>>), BlogPost>>}

File(ms, es) == [name |-> FileName, message_type |-> ms, enum_type |-> es]

\* The request bytes: undecodable, or one file that is or is not to generate.
Requests ==
    { [decodable |-> FALSE, file_to_generate |-> <<>>, proto_file |-> <<>>] }
    \cup
    { [decodable |-> TRUE, file_to_generate |-> <<FileName>>,
       proto_file |-> <<File(ms, <<KindEnum>>)>>] : ms \in MessageLists }
    \cup
    { [decodable |-> TRUE, file_to_generate |-> <<>>,
       proto_file |-> <<File(<<BlogPost>>, <<>>)>>] }

MessageKeys ==
    {<<f, n>> : f \in {FileName, "b.proto"}, n \in {"User", "BlogPost", "BlogPost.Inner"}}

FieldKeys == {<<FileName, "BlogPost", n>> : n \in {1, 2}}

EnumKeys == {<<FileName, n>> : n \in {"Kind", "BlogPost.Kind", "User"}}

OneofKeys == {<<FileName, "BlogPost", i>> : i \in {0, 1}}

(***************************************************************************)
(* The process: its cache, the lock's poison flag, and the calls made.     *)
(***************************************************************************)
VARIABLES
    cache,        \* OPTIONS_CACHE
    poisoned,     \* whether the RwLock is poisoned
    calls,        \* the number of generate_from_bytes calls made
    lastBytes,    \* Some(bytes of the latest generate_from_bytes call)
    lastResult,   \* Some(what it returned)
    repeat,       \* whether the latest call repeated the bytes of the one before
    op,           \* the operation that ran last and its arguments
    ret,          \* what it returned
    input,        \* the input of the pure functions under check
    proc          \* the plugin binary: main and run

vars == <<cache, poisoned, calls, lastBytes, lastResult, repeat, op, ret, input, proc>>

NoOp == [name |-> "none", args |-> <<>>]

Init ==
    /\ cache = OptionsCacheDefault
    /\ poisoned = FALSE
    /\ calls = 0
    /\ lastBytes = None
    /\ lastResult = None
    /\ repeat = FALSE
    /\ op = NoOp
    /\ ret = None
    /\ input = None
    /\ proc = None

GenerateFromBytes(bytes) ==
    /\ calls < MaxCalls
    /\ \E r \in {generate_from_bytes(cache, poisoned, bytes)} :
           /\ cache' = r.cache
           /\ lastResult' = Some([ok |-> r.ok, error |-> r.error, response |-> r.response])
           /\ ret' = None
    /\ calls' = calls + 1
    /\ lastBytes' = Some(bytes)
    /\ repeat' = (lastBytes = Some(bytes))
    /\ op' = [name |-> "generate_from_bytes", args |-> <<>>]
    /\ UNCHANGED <<poisoned, input, proc>>

\* A get_cached_* call: r is what the lookup returns and leaves.
Lookup(name, key, r) ==
    /\ cache' = r.cache
    /\ ret' = Some([panicked |-> r.panicked, result |-> r.result])
    /\ op' = [name |-> name, args |-> key]
    /\ UNCHANGED <<poisoned, calls, lastBytes, lastResult, repeat, input, proc>>

GetCachedMessageOptions(key) ==
    Lookup("get_cached_message_options", key,
           get_cached_message_options(cache, poisoned, key[1], key[2]))

GetCachedFieldOptions(key) ==
    Lookup("get_cached_field_options", key,
           get_cached_field_options(cache, poisoned, key[1], key[2], key[3]))

GetCachedEnumOptions(key) ==
    Lookup("get_cached_enum_options", key,
           get_cached_enum_options(cache, poisoned, key[1], key[2]))

GetCachedOneofOptions(key) ==
    Lookup("get_cached_oneof_options", key,
           get_cached_oneof_options(cache, poisoned, key[1], key[2], key[3]))

\* A parse_*_options call on a descriptor of the decoded request.
Parse(name, desc, result) ==
    /\ ret' = Some([panicked |-> FALSE, result |-> result])
    /\ op' = [name |-> name, args |-> <<desc>>]
    /\ UNCHANGED <<cache, poisoned, calls, lastBytes, lastResult, repeat, input, proc>>

ParseMessageOptions(desc) ==
    Parse("parse_message_options", desc, parse_message_options(desc))

ParseFieldOptions(desc) ==
    Parse("parse_field_options", desc, parse_field_options(desc))

ParseEnumOptions(desc) ==
    Parse("parse_enum_options", desc, parse_enum_options(desc))

ParseOneofOptions(desc) ==
    Parse("parse_oneof_options", desc, parse_oneof_options(desc))

\* The descriptors of the latest request as prost decoded them.
DecodedMessages ==
    IF lastBytes = None \/ ~Unwrap(lastBytes).decodable THEN {}
    ELSE LET files == ProstDecode(Unwrap(lastBytes)).proto_file
         IN  UNION {{files[i].message_type[j] : j \in 1..Len(files[i].message_type)} :
                        i \in 1..Len(files)}

Next ==
    \/ \E bytes \in Requests : GenerateFromBytes(bytes)
    \/ \E key \in MessageKeys : GetCachedMessageOptions(key)
    \/ \E key \in FieldKeys : GetCachedFieldOptions(key)
    \/ \E key \in EnumKeys : GetCachedEnumOptions(key)
    \/ \E key \in OneofKeys : GetCachedOneofOptions(key)
    \/ \E m \in DecodedMessages : ParseMessageOptions(m)
    \/ \E m \in DecodedMessages : \E i \in 1..Len(m.field) : ParseFieldOptions(m.field[i])
    \/ \E m \in DecodedMessages : \E i \in 1..Len(m.enum_type) :
            ParseEnumOptions(m.enum_type[i])
    \/ \E m \in DecodedMessages : \E i \in 1..Len(m.oneof_decl) :
            ParseOneofOptions(m.oneof_decl[i])

Spec == Init /\ [][Next]_vars


\* The lock is poisoned when a thread panics while it holds the write guard.
PoisonLock ==
    /\ ~poisoned
    /\ poisoned' = TRUE
    /\ op' = [name |-> "poison", args |-> <<>>]
    /\ ret' = None
    /\ UNCHANGED <<cache, calls, lastBytes, lastResult, repeat, input, proc>>

NextPoison == Next \/ PoisonLock

SpecPoison == Init /\ [][NextPoison]_vars

(***************************************************************************)
(* The option cache across calls.                                          *)
(***************************************************************************)
LookupNames ==
    {"get_cached_message_options", "get_cached_field_options",
     "get_cached_enum_options", "get_cached_oneof_options"}

ParseNames ==
    {"parse_message_options", "parse_field_options", "parse_enum_options",
     "parse_oneof_options"}

\* The map a lookup reads.
MapOf(name) ==
    CASE name = "get_cached_message_options" -> "message_options"
      [] name = "get_cached_field_options" -> "field_options"
      [] name = "get_cached_enum_options" -> "enum_options"
      [] name = "get_cached_oneof_options" -> "oneof_options"

\* What a map of the cache holds for a key.
StoredOptions(c, which, key) ==
    IF key \in DOMAIN c[which] THEN Some(c[which][key]) ELSE None

\* The keys of one map that a request populates on its own.
PopulatedKeys(bytes, which) ==
    DOMAIN preprocess_request_bytes(OptionsCacheDefault, FALSE, bytes).cache[which]

User(options) == Message("User", options, <<>>, <<>>, <<>>, <<>>)

RequestWith(ms) ==
    [decodable |-> TRUE, file_to_generate |-> <<FileName>>,
     proto_file |-> <<File(ms, <<KindEnum>>)>>]

LastDecodable == IsSome(lastBytes) /\ Unwrap(lastBytes).decodable

\* C1: after request A and then request B were preprocessed, a lookup of a
\* key that A populated and B does not contain returns no options: a lookup
\* that follows a preprocessed request answers None for every key that
\* request does not populate.
C1_NoStateAcrossRequests ==
    (/\ op.name \in LookupNames
     /\ LastDecodable
     /\ op.args \notin PopulatedKeys(Unwrap(lastBytes), MapOf(op.name)))
    => Unwrap(ret).result = None

\* Request A declared model options on User, request B declares none, and
\* the lookup after B still answers with A's options.
C1_StaleEntryServed ==
    /\ calls = 2
    /\ lastBytes = Some(RequestWith(<<User(None)>>))
    /\ op = [name |-> "get_cached_message_options", args |-> <<FileName, "User">>]
    /\ Unwrap(ret).result = Some([DefaultMessageOptions EXCEPT !.table_name = "users"])

\* C2: generate_from_bytes called twice with the same bytes returns the same
\* result both times, and the cache after the second call is the cache after
\* the first.
C2_Idempotent ==
    [][(calls' = calls + 1 /\ lastBytes' = lastBytes)
       => (lastResult' = lastResult /\ cache' = cache)]_vars

\* The second of two calls with the same bytes, with entries cached and a
\* file emitted.
C2_RepeatedCall ==
    /\ repeat
    /\ op.name = "generate_from_bytes"
    /\ Unwrap(lastResult).ok
    /\ Unwrap(Unwrap(lastResult).response).file # <<>>
    /\ DOMAIN cache.field_options # {}

\* C3: only generate_from_bytes (preprocess_request_bytes and its walkers)
\* changes the cache; every get_cached_* and parse_*_options call leaves all
\* five maps as they were, a lookup answers with what the map held before it,
\* and a lookup repeated gives the same answer.
C3_ReadsArePure ==
    [][/\ cache' # cache => op'.name = "generate_from_bytes"
       /\ op'.name \in LookupNames \cup ParseNames => cache' = cache
       /\ op'.name \in LookupNames =>
            Unwrap(ret').result = StoredOptions(cache, MapOf(op'.name), op'.args)
       /\ (op.name \in LookupNames /\ op' = op) => ret' = ret]_vars

\* A lookup that found the options preprocessing stored for a field.
C3_LookupHit ==
    /\ op = [name |-> "get_cached_field_options", args |-> <<FileName, "BlogPost", 1>>]
    /\ Unwrap(ret).result = Some([DefaultFieldOptions EXCEPT !.primary_key = TRUE])
    /\ cache.field_options[<<FileName, "BlogPost", 1>>].primary_key

\* C4: a lookup never fails: for every key, inserted or not, and with the
\* lock poisoned or not, it returns the stored record or None and does not
\* panic.
C4_LookupsNeverFail ==
    op.name \in LookupNames =>
        /\ ~Unwrap(ret).panicked
        /\ \/ Unwrap(ret).result = None
           \/ Unwrap(ret).result = StoredOptions(cache, MapOf(op.name), op.args)

\* A lookup of a stored key under a poisoned lock: it answers None.
C4_PoisonedLookup ==
    /\ poisoned
    /\ op.name = "get_cached_message_options"
    /\ op.args \in DOMAIN cache.message_options
    /\ Unwrap(ret) = [panicked |-> FALSE, result |-> None]

(***************************************************************************)
(* The response of the latest call against the request it was given.       *)
(***************************************************************************)
\* The top-level messages of the files to generate, as the request carries
\* them.
MessagesToGenerate ==
    IF ~LastDecodable THEN {}
    ELSE LET request == Unwrap(lastBytes)
         IN  UNION {{request.proto_file[i].message_type[j] :
                        j \in 1..Len(request.proto_file[i].message_type)} :
                    i \in {k \in 1..Len(request.proto_file) :
                            \E g \in 1..Len(request.file_to_generate) :
                                request.file_to_generate[g] = request.proto_file[k].name}}

\* The message carries a model option: the seaorm.model extension or a
\* matching uninterpreted option.
HasModelOption(m) ==
    /\ m.options # None
    /\ \/ Unwrap(m.options).ext # None
       \/ Found(MODEL_EXTENSION_NAME, Unwrap(m.options).uninterpreted_option)

\* The model options the message declares in the request.
DeclaredModelOptions(m) ==
    IF Unwrap(m.options).ext # None
    THEN Unwrap(convert_to_message_options(Unwrap(Unwrap(m.options).ext)))
    ELSE Unwrap(parse_message_options_from_uninterpreted(
                    Unwrap(m.options).uninterpreted_option))

\* The message gives seaorm.model as an uninterpreted aggregate that sets skip.
HasSkipAggregate(m) ==
    /\ m.options # None
    /\ \E i \in 1..Len(Unwrap(m.options).uninterpreted_option) :
         LET opt == Unwrap(m.options).uninterpreted_option[i]
         IN  /\ is_extension_option(opt, MODEL_EXTENSION_NAME)
             /\ IsSome(opt.aggregate_value)
             /\ find(Unwrap(opt.aggregate_value), "skip: true") # 0

ResponseFiles ==
    IF IsSome(lastResult) /\ Unwrap(lastResult).ok
    THEN Unwrap(Unwrap(lastResult).response).file
    ELSE <<>>

\* The call returned Ok(response) and the response's error field is unset.
NoError ==
    /\ IsSome(lastResult)
    /\ Unwrap(lastResult).ok
    /\ Unwrap(Unwrap(lastResult).response).error = None

\* The files of the response emitted for a message.
FilesFor(m) == {i \in 1..Len(ResponseFiles) : ResponseFiles[i].entity = m.name}

\* C5: a message of a file to generate that carries no model option (and is
\* referenced by no embed flag: no field of these requests sets one) has no
\* file in the response, and the response has no error.
C5_NoModelOptionNoFile ==
    \A m \in MessagesToGenerate :
        ~HasModelOption(m) => (NoError /\ FilesFor(m) = {})

\* The second request declares nothing on User and still gets user.rs, from
\* the entry the first request cached.
C5_FileForUnannotatedMessage ==
    /\ calls = 2
    /\ lastBytes = Some(RequestWith(<<User(Options(None, <<>>))>>))
    /\ Len(ResponseFiles) = 1
    /\ ResponseFiles[1].name = "user.rs"

\* C6: a message M of a file to generate that carries a model option with
\* skip unset has exactly one file in the response, named snake_case(M.name)
\* with the .rs extension, and the response has no error.
C6_OneFilePerEntity ==
    \A m \in MessagesToGenerate :
        (HasModelOption(m) /\ ~DeclaredModelOptions(m).skip) =>
            /\ NoError
            /\ Cardinality(FilesFor(m)) = 1
            /\ \A i \in FilesFor(m) : ResponseFiles[i].name = to_snake_case(m.name) \o ".rs"

\* The second request names the table of User in an uninterpreted option and
\* gets no file: the first request cached skip for the same key.
C6_NoFileForAnnotatedMessage ==
    /\ calls = 2
    /\ lastBytes = Some(RequestWith(
            <<User(Options(None, <<Aggregate("seaorm.model", TRUE,
                                             "table_name: \"users\"")>>))>>))
    /\ NoError
    /\ ResponseFiles = <<>>

\* C7: a message whose uninterpreted seaorm.model aggregate sets skip: true
\* has no file in the response, whatever else the aggregate sets, and the
\* response has no error.
C7_SkipTrueNoFile ==
    \A m \in MessagesToGenerate :
        HasSkipAggregate(m) => (NoError /\ FilesFor(m) = {})

\* The second request skips User in an uninterpreted aggregate and still gets
\* user.rs, from the entry the first request cached.
C7_FileForSkippedMessage ==
    /\ calls = 2
    /\ lastBytes = Some(RequestWith(
            <<User(Options(None, <<Aggregate("seaorm.model", TRUE, "skip: true")>>))>>))
    /\ Len(ResponseFiles) = 1
    /\ ResponseFiles[1].entity = "User"

(***************************************************************************)
(* The plugin binary (src/main.rs): one process, one request.  main reads  *)
(* stdin, calls generate_from_bytes on a fresh cache, encodes the response *)
(* and writes it to stdout.                                                *)
(***************************************************************************)
\* The Display strings of GeneratorError.
GeneratorErrorDisplay(kind, message) ==
    CASE kind = "OptionsParseError" -> "Failed to parse options: " \o message
      [] kind = "UnknownFieldType" -> "Unknown field type: " \o message
      [] kind = "InvalidConfig" -> "Invalid configuration: " \o message
      [] kind = "CodeGenError" -> "Code generation failed: " \o message
      [] kind = "DecodeError" -> "Decode error: " \o message

GeneratorErrorKinds ==
    {"OptionsParseError", "UnknownFieldType", "InvalidConfig", "CodeGenError",
     "DecodeError"}

\* CodeGeneratorResponse::default().
DefaultCodeGeneratorResponse == [error |-> None, file |-> <<>>]

\* What generate_from_bytes can do with the bytes of stdin in a fresh
\* process: panic, return Ok(response), or return Err(GeneratorError).  The
\* generators of a decodable request may fail with any kind of error.
ErrorMessages == {"", "conflicting options"}

GenerateOutcomes(bytes) ==
    IF generate_from_bytes_panics(OptionsCacheDefault, FALSE, bytes)
    THEN {[kind |-> "Panic"]}
    ELSE LetIn(generate_from_bytes(OptionsCacheDefault, FALSE, bytes), LAMBDA r :
            IF ~r.ok
            THEN {[kind |-> "Err", error |-> "DecodeError",
                   message |-> "Failed to decode CodeGeneratorRequest"]}
            ELSE {[kind |-> "Ok", response |-> Unwrap(r.response)]}
                 \cup {[kind |-> "Err", error |-> e, message |-> m] :
                        e \in GeneratorErrorKinds, m \in ErrorMessages})

\* The protobuf fields of CodeGeneratorResponse on the wire.
ErrorTag == 1

FileTag == 15

\* response.encode(&mut out): an unset error is not written, each file is one
\* field.
Encode(response) ==
    (IF response.error = None THEN <<>>
     ELSE <<[tag |-> ErrorTag, value |-> Unwrap(response.error)]>>)
    \o [i \in 1..Len(response.file) |-> [tag |-> FileTag, value |-> response.file[i]]]

\* What the compiler driver decodes from the bytes of stdout.
RECURSIVE Decode(_)
Decode(out) ==
    IF out = <<>> THEN DefaultCodeGeneratorResponse
    ELSE LetIn(Decode(SubSeq(out, 1, Len(out) - 1)), LAMBDA before :
            LetIn(out[Len(out)], LAMBDA field :
                IF field.tag = ErrorTag
                THEN [before EXCEPT !.error = Some(field.value)]
                ELSE [before EXCEPT !.file = Append(@, field.value)]))

\* A request whose User message names its table with a lone quote character.
LoneQuoteRequest ==
    RequestWith(<<User(Options(None, <<Aggregate("seaorm.model", TRUE,
                                                 "table_name: \"")>>))>>)

\* The bytes the binary may find on stdin.
MainInputs ==
    { [decodable |-> FALSE, file_to_generate |-> <<>>, proto_file |-> <<>>],
      RequestWith(<<>>),
      RequestWith(<<User(Options(Some([DefaultMessageOptions EXCEPT
                                          !.table_name = "users"]), <<>>))>>),
      RequestWith(<<User(Options(None, <<Aggregate("seaorm.model", TRUE,
                                                   "table_name: \"users\"")>>))>>),
      LoneQuoteRequest }

\* The exit status of a Rust process whose main thread panicked.
PanicExitCode == 101

ProcStart ==
    [pc |-> "start", buf |-> None, outcome |-> None, response |-> None,
     out |-> None, stdout |-> None, exit_code |-> None, failed |-> None]

InitMain ==
    /\ cache = OptionsCacheDefault
    /\ poisoned = FALSE
    /\ calls = 0
    /\ lastBytes = None
    /\ lastResult = None
    /\ repeat = FALSE
    /\ op = NoOp
    /\ ret = None
    /\ input = None
    /\ proc = ProcStart

\* run() returned Err(e): main prints it to stderr and exits with status 1.
ExitFailure(what) ==
    [proc EXCEPT !.pc = "exited", !.exit_code = Some(1), !.failed = Some(what)]

\* io::stdin().read_to_end(&mut buf)?
MainReadStdin(ok, bytes) ==
    /\ proc.pc = "start"
    /\ proc' = IF ok THEN [proc EXCEPT !.pc = "read", !.buf = Some(bytes)]
               ELSE ExitFailure("read")
    /\ UNCHANGED <<cache, poisoned, calls, lastBytes, lastResult, repeat, op, ret, input>>

\* generate_from_bytes(&buf).unwrap_or_else(|e| CodeGeneratorResponse {
\* error: Some(e.to_string()), ..Default::default() }); a panic unwinds
\* through main and ends the process.
MainGenerate ==
    /\ proc.pc = "read"
    /\ \E outcome \in GenerateOutcomes(Unwrap(proc.buf)) :
        /\ proc' =
            CASE outcome.kind = "Panic" ->
                    [proc EXCEPT !.pc = "exited", !.outcome = Some(outcome),
                                 !.exit_code = Some(PanicExitCode)]
              [] outcome.kind = "Ok" ->
                    [proc EXCEPT !.pc = "generated", !.outcome = Some(outcome),
                                 !.response = Some(outcome.response)]
              [] outcome.kind = "Err" ->
                    [proc EXCEPT !.pc = "generated", !.outcome = Some(outcome),
                                 !.response =
                                    Some([DefaultCodeGeneratorResponse EXCEPT
                                            !.error = Some(GeneratorErrorDisplay(
                                                        outcome.error, outcome.message))])]
        /\ cache' = IF outcome.kind = "Panic" THEN cache
                    ELSE preprocess_request_bytes(cache, poisoned, Unwrap(proc.buf)).cache
    /\ calls' = calls + 1
    /\ UNCHANGED <<poisoned, lastBytes, lastResult, repeat, op, ret, input>>

\* response.encode(&mut out)?
MainEncode(ok) ==
    /\ proc.pc = "generated"
    /\ proc' = IF ok
               THEN [proc EXCEPT !.pc = "encoded",
                                 !.out = Some(Encode(Unwrap(proc.response)))]
               ELSE ExitFailure("encode")
    /\ UNCHANGED <<cache, poisoned, calls, lastBytes, lastResult, repeat, op, ret, input>>

\* io::stdout().write_all(&out)?; Ok(()): main returns and the process exits
\* with status 0.
MainWriteStdout(ok) ==
    /\ proc.pc = "encoded"
    /\ proc' = IF ok
               THEN [proc EXCEPT !.pc = "exited", !.stdout = proc.out,
                                 !.exit_code = Some(0)]
               ELSE ExitFailure("write")
    /\ UNCHANGED <<cache, poisoned, calls, lastBytes, lastResult, repeat, op, ret, input>>

NextMain ==
    \/ \E ok \in BOOLEAN, bytes \in MainInputs : MainReadStdin(ok, bytes)
    \/ MainGenerate
    \/ \E ok \in BOOLEAN : MainEncode(ok)
    \/ \E ok \in BOOLEAN : MainWriteStdout(ok)

SpecMain == InitMain /\ [][NextMain]_vars

\* C8: when generate_from_bytes returns an error of any kind, the process
\* (unless encoding or writing fails) writes to stdout a response whose
\* error field is the error's display string and whose file list is empty,
\* and exits with status 0; the exit status is nonzero only when reading
\* stdin, encoding the response or writing stdout failed.
C8_ErrorsReportedExitZero ==
    proc.pc = "exited" =>
        /\ (IsSome(proc.outcome) /\ Unwrap(proc.outcome).kind = "Err"
                /\ proc.failed = None) =>
              /\ proc.exit_code = Some(0)
              /\ IsSome(proc.stdout)
              /\ Decode(Unwrap(proc.stdout)) =
                    [error |-> Some(GeneratorErrorDisplay(Unwrap(proc.outcome).error,
                                                          Unwrap(proc.outcome).message)),
                     file |-> <<>>]
        /\ proc.exit_code # Some(0) => proc.failed \in {Some("read"), Some("encode"),
                                                        Some("write")}

\* The process read the lone-quote request, panicked in the generator and
\* exited nonzero with nothing written and no read, encode or write failure.
C8_PanicExit ==
    /\ proc.pc = "exited"
    /\ proc.buf = Some(LoneQuoteRequest)
    /\ proc.exit_code = Some(PanicExitCode)
    /\ proc.failed = None
    /\ proc.stdout = None

\* Without a panic the claim holds: errors are reported in the response and
\* only a failed read, encode or write gives a nonzero status.
C8_HoldsWithoutPanic ==
    (IsSome(proc.outcome) /\ Unwrap(proc.outcome).kind = "Panic")
    \/ C8_ErrorsReportedExitZero

(***************************************************************************)
(* Oneof compilation (src/codegen/oneof.rs).  A generated struct field is  *)
(* a record of what its quote! block holds: the column_name of the sea_orm *)
(* attribute, whether the attribute carries `nullable`, its column_type if *)
(* any, the field identifier and the field's type.                         *)
(***************************************************************************)
\* str::to_lowercase, on ASCII.
RECURSIVE to_lowercase(_)
to_lowercase(s) ==
    IF s = "" THEN ""
    ELSE LetIn(find(UpperCase, CharAt(s, 1)), LAMBDA u :
            (IF u = 0 THEN CharAt(s, 1) ELSE CharAt(LowerCase, u))
            \o to_lowercase(SubSeq(s, 2, Len(s))))

\* A variant that compares the text as given, without lowering its case.
OneofStrategyFromStrCaseSensitive(s) ==
    CASE s = "json" -> "Json"
      [] s = "tagged" -> "Tagged"
      [] OTHER -> "Flatten"

OneofStrategy_from_str(s) ==
    LetIn(to_lowercase(s), LAMBDA lower :
        CASE lower = "json" -> "Json"
          [] lower = "tagged" -> "Tagged"
          [] OTHER -> "Flatten")

extract_oneof_settings(options) ==
    IF IsSome(options)
    THEN <<OneofStrategy_from_str(Unwrap(options).strategy),
           Unwrap(options).column_prefix,
           Unwrap(options).discriminator_column>>
    ELSE <<"Flatten", "", "">>

\* oneof_desc.name.as_ref().map(|s| s.as_str()).unwrap_or("unknown")
oneof_name_of(oneof_desc) ==
    IF IsSome(oneof_desc.name) THEN Unwrap(oneof_desc.name) ELSE "unknown"

\* message.field.iter().filter(|f| f.oneof_index == Some(idx)).map(..).collect()
RECURSIVE OneofFieldsFrom(_, _, _)
OneofFieldsFrom(message, idx, i) ==
    IF i > Len(message.field) THEN <<>>
    ELSE (IF message.field[i].oneof_index = Some(idx)
          THEN << [name |-> message.field[i].name,
                   proto_type |-> message.field[i].type,
                   type_name |-> message.field[i].type_name] >>
          ELSE <<>>)
         \o OneofFieldsFrom(message, idx, i + 1)

\* The OneofInfo pushed for the declaration at index idx (counted from 0).
OneofInfoOf(message, idx) ==
    LetIn(extract_oneof_settings(parse_oneof_options(message.oneof_decl[idx + 1])),
          LAMBDA settings :
        [name |-> oneof_name_of(message.oneof_decl[idx + 1]),
         strategy |-> settings[1],
         column_prefix |-> settings[2],
         discriminator_column |-> settings[3],
         fields |-> OneofFieldsFrom(message, idx, 1)])

RECURSIVE extract_oneofs_from(_, _)
extract_oneofs_from(message, idx) ==
    IF idx >= Len(message.oneof_decl) THEN <<>>
    ELSE (IF starts_with(oneof_name_of(message.oneof_decl[idx + 1]), "_")
          THEN <<>>
          ELSE <<OneofInfoOf(message, idx)>>)
         \o extract_oneofs_from(message, idx + 1)

extract_oneofs(message) == extract_oneofs_from(message, 0)

\* A variant that takes every declared oneof for a real one.
IsOneofFieldIgnoringName(field, message) ==
    /\ IsSome(field.oneof_index)
    /\ Unwrap(field.oneof_index) >= 0
    /\ Unwrap(field.oneof_index) < Len(message.oneof_decl)
    /\ IsSome(message.oneof_decl[Unwrap(field.oneof_index) + 1].name)

\* `(idx as usize) < len` is false for a negative idx.
is_oneof_field(field, message) ==
    IF IsSome(field.oneof_index)
    THEN LetIn(Unwrap(field.oneof_index), LAMBDA idx :
            IF idx >= 0 /\ idx < Len(message.oneof_decl)
            THEN IF IsSome(message.oneof_decl[idx + 1].name)
                 THEN ~starts_with(Unwrap(message.oneof_decl[idx + 1].name), "_")
                 ELSE FALSE
            ELSE FALSE)
    ELSE FALSE

\* types::map_proto_type (src/types.rs), by the specification's table: the
\* scalar tags map to fixed types, an enum or a message to its emitted type,
\* named by the last segment of the type name.
map_proto_type(type, type_name) ==
    [rust_type |->
        CASE type = "Double" -> "f64"
          [] type = "Float" -> "f32"
          [] type \in {"Int32", "Sint32", "Sfixed32"} -> "i32"
          [] type \in {"Int64", "Sint64", "Sfixed64"} -> "i64"
          [] type \in {"Uint32", "Fixed32"} -> "u32"
          [] type \in {"Uint64", "Fixed64"} -> "u64"
          [] type = "Bool" -> "bool"
          [] type = "String" -> "String"
          [] type = "Bytes" -> "Vec<u8>"
          [] OTHER -> IF IsSome(type_name)
                      THEN LetIn(split(Unwrap(type_name), "."), LAMBDA segments :
                              segments[Len(segments)])
                      ELSE ""]

\* syn::parse_str(&mapped.rust_type).unwrap_or_else(|_| parse_quote!(String)):
\* the empty text is no type.
parsed_rust_type(rust_type) == IF rust_type = "" THEN "String" ELSE rust_type

\* message.field.iter().find(|f| f.name.as_ref() == Some(&name)): the index of
\* the first field of that name, 0 when there is none.
RECURSIVE FindField(_, _, _)
FindField(message, name, i) ==
    IF i > Len(message.field) THEN 0
    ELSE IF message.field[i].name = name THEN i
         ELSE FindField(message, name, i + 1)

\* A variant that takes the nullable attribute from the field's own options.
FlattenColumnHonouringOption(oneof, field_name, field) ==
    LetIn(parse_field_options(field), LAMBDA options :
        [column_name |-> IF oneof.column_prefix = "" THEN to_snake_case(field_name)
                         ELSE oneof.column_prefix \o "_" \o to_snake_case(field_name),
         nullable |-> IF IsSome(options) THEN Unwrap(options).nullable ELSE TRUE,
         column_type |-> None,
         ident |-> to_snake_case(field_name),
         type |-> "Option<"
                  \o parsed_rust_type(map_proto_type(field.type, field.type_name).rust_type)
                  \o ">"])

\* A variant that leaves the column prefix out of the column name.
FlattenColumnIgnoringPrefix(oneof, field_name, field) ==
    LetIn(to_snake_case(field_name), LAMBDA snake :
        [column_name |-> snake,
         nullable |-> TRUE,
         column_type |-> None,
         ident |-> snake,
         type |-> "Option<"
                  \o parsed_rust_type(map_proto_type(field.type, field.type_name).rust_type)
                  \o ">"])

\* The body of the loop of generate_flatten_fields for one found field.
FlattenColumn(oneof, field_name, field) ==
    LetIn(to_snake_case(field_name), LAMBDA snake :
        [column_name |-> IF oneof.column_prefix = "" THEN snake
                         ELSE oneof.column_prefix \o "_" \o snake,
         nullable |-> TRUE,
         column_type |-> None,
         ident |-> snake,
         type |-> "Option<"
                  \o parsed_rust_type(map_proto_type(field.type, field.type_name).rust_type)
                  \o ">"])

RECURSIVE generate_flatten_fields_from(_, _, _)
generate_flatten_fields_from(oneof, message, i) ==
    IF i > Len(oneof.fields) THEN <<>>
    ELSE LetIn(FindField(message, oneof.fields[i].name, 1), LAMBDA at :
            (IF at = 0 THEN <<>>
             ELSE <<FlattenColumn(oneof, oneof.fields[i].name, message.field[at])>>)
            \o generate_flatten_fields_from(oneof, message, i + 1))

generate_flatten_fields(oneof, message) == generate_flatten_fields_from(oneof, message, 1)

\* A variant that stores each variant in a Json column of its own.
GenerateJsonFieldsPerVariant(oneof) ==
    [i \in 1..Len(oneof.fields) |->
        [column_name |-> to_snake_case(oneof.fields[i].name), nullable |-> FALSE,
         column_type |-> Some("Json"), ident |-> to_snake_case(oneof.fields[i].name),
         type |-> "Option<sea_orm::prelude::Json>"]]

generate_json_fields(oneof) ==
    LetIn(to_snake_case(oneof.name), LAMBDA snake :
        << [column_name |-> snake, nullable |-> FALSE, column_type |-> Some("Json"),
            ident |-> snake, type |-> "Option<sea_orm::prelude::Json>"] >>)

\* A variant that never reads the discriminator_column option.
GenerateTaggedFieldsIgnoringOption(oneof) ==
    LetIn(to_snake_case(oneof.name), LAMBDA base_name :
        << [column_name |-> base_name \o "_type", nullable |-> FALSE,
            column_type |-> None, ident |-> base_name \o "_type",
            type |-> "Option<String>"],
           [column_name |-> base_name \o "_value", nullable |-> FALSE,
            column_type |-> Some("Text"), ident |-> base_name \o "_value",
            type |-> "Option<String>"] >>)

generate_tagged_fields(oneof) ==
    LetIn(to_snake_case(oneof.name), LAMBDA base_name :
        LetIn(IF oneof.discriminator_column = "" THEN base_name \o "_type"
              ELSE oneof.discriminator_column, LAMBDA disc_col :
            << [column_name |-> disc_col, nullable |-> FALSE, column_type |-> None,
                ident |-> to_snake_case(disc_col), type |-> "Option<String>"],
               [column_name |-> base_name \o "_value", nullable |-> FALSE,
                column_type |-> Some("Text"), ident |-> base_name \o "_value",
                type |-> "Option<String>"] >>))

(***************************************************************************)
(* The message descriptors the oneof functions are applied to, as prost    *)
(* decodes what the compiler sends: names present and distinct, a field's  *)
(* oneof_index within the declared oneofs, options in uninterpreted form.  *)
(***************************************************************************)
OneofAggregate(text) == Options(None, <<Aggregate("seaorm.oneof", TRUE, text)>>)

OneofOptionVariants ==
    { None,
      OneofAggregate("column_prefix: \"p\""),
      OneofAggregate("strategy: \"flatten\", discriminator_column: \"kind\""),
      OneofAggregate("strategy: \"JSON\""),
      OneofAggregate("strategy: \"tagged\""),
      OneofAggregate("strategy: \"tagged\", discriminator_column: \"kind\"") }

\* The options of a member field: none, or its own nullable option either way.
NullableVariants ==
    { None,
      Options(None, <<Aggregate("seaorm.field", TRUE, "nullable: true")>>),
      Options(None, <<Aggregate("seaorm.field", TRUE, "nullable: false")>>) }

OneofDecl(name, options) == [name |-> Some(name), options |-> options]

\* The oneofs of a message: a real one named payLoad, a second real one named
\* target, and the synthetic one of a proto3 optional field, in any position.
OneofDeclLists ==
    { <<>>, <<OneofDecl("_note", None)>> }
    \cup UNION { { <<OneofDecl("payLoad", o)>>,
                   <<OneofDecl("payLoad", o), OneofDecl("_note", None)>>,
                   <<OneofDecl("_note", None), OneofDecl("payLoad", o)>>,
                   <<OneofDecl("payLoad", o), OneofDecl("target", None)>> } :
                 o \in OneofOptionVariants }

\* Some(index from 0) of the oneof of that name, None when it is not declared.
OneofIndexOf(decls, name) ==
    IF \E i \in 1..Len(decls) : decls[i].name = Some(name)
    THEN Some((CHOOSE i \in 1..Len(decls) : decls[i].name = Some(name)) - 1)
    ELSE None

OneofPoolField(name, number, type, type_name, oneof_index, options) ==
    [name |-> name, number |-> number, type |-> type, type_name |-> type_name,
     oneof_index |-> oneof_index, options |-> options]

EventMessage(decls, item_options) ==
    Message("Event", None,
        << OneofPoolField("id", 1, "Int64", None, None, None),
           OneofPoolField("text", 2, "String", None, OneofIndexOf(decls, "payLoad"), None),
           OneofPoolField("itemCount", 3, "Int32", None, OneofIndexOf(decls, "payLoad"),
                          item_options),
           OneofPoolField("note", 4, "String", None, OneofIndexOf(decls, "_note"),
                          item_options),
           OneofPoolField("user", 5, "Message", Some(".pkg.User"),
                          OneofIndexOf(decls, "target"), None) >>,
        decls, <<>>, <<>>)

OneofMessages ==
    { EventMessage(decls, o) : decls \in OneofDeclLists, o \in NullableVariants }

InitOneof ==
    /\ cache = OptionsCacheDefault
    /\ poisoned = FALSE
    /\ calls = 0
    /\ lastBytes = None
    /\ lastResult = None
    /\ repeat = FALSE
    /\ op = NoOp
    /\ ret = None
    /\ input \in {Some(m) : m \in OneofMessages}
    /\ proc = None

\* One call of a function of oneof.rs on the message at hand.
OneofCall(name, args, result) ==
    /\ op' = [name |-> name, args |-> args]
    /\ ret' = Some(result)
    /\ UNCHANGED <<cache, poisoned, calls, lastBytes, lastResult, repeat, input, proc>>

ExtractOneofs ==
    \E r \in {extract_oneofs(Unwrap(input))} : OneofCall("extract_oneofs", <<>>, r)

IsOneofField ==
    \E i \in 1..Len(Unwrap(input).field) :
        \E r \in {is_oneof_field(Unwrap(input).field[i], Unwrap(input))} :
            OneofCall("is_oneof_field", <<i>>, r)

\* The entity generator hands each OneofInfo of extract_oneofs to the
\* generator of its strategy.
GenerateFlattenFields ==
    \E infos \in {extract_oneofs(Unwrap(input))} : \E k \in 1..Len(infos) :
        /\ infos[k].strategy = "Flatten"
        /\ \E r \in {generate_flatten_fields(infos[k], Unwrap(input))} :
               OneofCall("generate_flatten_fields", <<infos[k]>>, r)

\* generate_flatten_fields is public: a call of it on any OneofInfo of the
\* message, whatever its strategy.
CallGenerateFlattenFields ==
    \E infos \in {extract_oneofs(Unwrap(input))} : \E k \in 1..Len(infos) :
        \E r \in {generate_flatten_fields(infos[k], Unwrap(input))} :
            OneofCall("generate_flatten_fields(any)", <<infos[k]>>, r)

GenerateJsonFields ==
    \E infos \in {extract_oneofs(Unwrap(input))} : \E k \in 1..Len(infos) :
        /\ infos[k].strategy = "Json"
        /\ \E r \in {generate_json_fields(infos[k])} :
               OneofCall("generate_json_fields", <<infos[k]>>, r)

GenerateTaggedFields ==
    \E infos \in {extract_oneofs(Unwrap(input))} : \E k \in 1..Len(infos) :
        /\ infos[k].strategy = "Tagged"
        /\ \E r \in {generate_tagged_fields(infos[k])} :
               OneofCall("generate_tagged_fields", <<infos[k]>>, r)

NextOneof ==
    \/ ExtractOneofs
    \/ IsOneofField
    \/ GenerateFlattenFields
    \/ CallGenerateFlattenFields
    \/ GenerateJsonFields
    \/ GenerateTaggedFields

SpecOneof == InitOneof /\ [][NextOneof]_vars

\* The declaration indexes (from 0) of a message's oneofs, and the fields
\* whose oneof_index is a given one, in declaration order.
DeclIndexes(m) == 0..(Len(m.oneof_decl) - 1)

DeclName(m, idx) == Unwrap(m.oneof_decl[idx + 1].name)

MemberFields(m, idx) == SelectSeq(m.field, LAMBDA f : f.oneof_index = Some(idx))

FieldNames(fields) == [i \in 1..Len(fields) |-> fields[i].name]

InfosNamed(infos, name) == {k \in 1..Len(infos) : infos[k].name = name}

GenerateNames ==
    {"generate_flatten_fields", "generate_json_fields", "generate_tagged_fields"}

\* C9: a oneof whose name begins with an underscore gives no OneofInfo, its
\* member fields are no oneof fields, and no strategy generator ever runs for
\* it; any other oneof gives exactly one OneofInfo, listing exactly the fields
\* whose oneof_index is its declaration index, and its members are oneof fields.
C9_SyntheticOneofsAreNoOneofs ==
    IsSome(input) =>
        /\ op.name = "extract_oneofs" =>
              \A idx \in DeclIndexes(Unwrap(input)) :
                  IF starts_with(DeclName(Unwrap(input), idx), "_")
                  THEN InfosNamed(Unwrap(ret), DeclName(Unwrap(input), idx)) = {}
                  ELSE /\ Cardinality(InfosNamed(Unwrap(ret),
                                                 DeclName(Unwrap(input), idx))) = 1
                       /\ \A k \in InfosNamed(Unwrap(ret), DeclName(Unwrap(input), idx)) :
                              FieldNames(Unwrap(ret)[k].fields)
                                  = FieldNames(MemberFields(Unwrap(input), idx))
        /\ op.name = "is_oneof_field" =>
              \A idx \in DeclIndexes(Unwrap(input)) :
                  Unwrap(input).field[op.args[1]].oneof_index = Some(idx) =>
                      ret = Some(~starts_with(DeclName(Unwrap(input), idx), "_"))
        /\ op.name \in GenerateNames =>
              /\ ~starts_with(op.args[1].name, "_")
              /\ \A idx \in DeclIndexes(Unwrap(input)) :
                     starts_with(DeclName(Unwrap(input), idx), "_") =>
                         \A i \in 1..Len(MemberFields(Unwrap(input), idx)) :
                             \A j \in 1..Len(Unwrap(ret)) :
                                 Unwrap(ret)[j].ident
                                     # to_snake_case(MemberFields(Unwrap(input), idx)[i].name)

\* is_oneof_field answered false for the member of a synthetic oneof of a
\* message that also declares a real one.
C9_SyntheticMemberRejected ==
    /\ IsSome(input)
    /\ op.name = "is_oneof_field"
    /\ Unwrap(input).field[op.args[1]].name = "note"
    /\ Unwrap(input).field[op.args[1]].oneof_index = Some(0)
    /\ DeclName(Unwrap(input), 0) = "_note"
    /\ Len(Unwrap(input).oneof_decl) = 2
    /\ ret = Some(FALSE)

\* The declaration index of the oneof an OneofInfo was extracted from.
DeclIndexOf(m, info) == CHOOSE idx \in DeclIndexes(m) : DeclName(m, idx) = info.name

\* C10: under the flatten strategy each member field of the oneof yields
\* exactly one column, typed Option<T> and carrying `nullable` whatever the
\* field's own nullable option says; there are as many columns as member
\* fields, and none of them is a discriminator column.
C10_FlattenColumns ==
    op.name = "generate_flatten_fields" =>
        LET m == Unwrap(input)
            info == op.args[1]
            columns == Unwrap(ret)
            members == MemberFields(m, DeclIndexOf(m, info))
        IN  /\ info.strategy = "Flatten"
            /\ Len(columns) = Len(members)
            /\ \A i \in 1..Len(members) :
                   /\ columns[i].ident = to_snake_case(members[i].name)
                   /\ Cardinality({j \in 1..Len(columns) :
                                      columns[j].ident = columns[i].ident}) = 1
                   /\ columns[i].type
                          = "Option<" \o parsed_rust_type(
                                map_proto_type(members[i].type,
                                               members[i].type_name).rust_type) \o ">"
                   /\ columns[i].nullable
            /\ \A j \in 1..Len(columns) :
                   columns[j].column_name # generate_tagged_fields(info)[1].column_name

\* Flatten columns were generated for a oneof one of whose members sets its own
\* nullable option to false.
C10_FlattenOverNonNullableMember ==
    /\ op.name = "generate_flatten_fields"
    /\ Len(Unwrap(ret)) = 2
    /\ \E i \in 1..Len(Unwrap(input).field) :
           /\ \E q \in 1..Len(op.args[1].fields) :
                  op.args[1].fields[q].name = Unwrap(input).field[i].name
           /\ parse_field_options(Unwrap(input).field[i])
                  = Some([DefaultFieldOptions EXCEPT !.nullable = FALSE])
           /\ \E j \in 1..Len(Unwrap(ret)) :
                  /\ Unwrap(ret)[j].ident = "item_count"
                  /\ Unwrap(ret)[j].nullable

\* C11, as amended: under the flatten strategy a non-empty column_prefix is
\* prepended to every member's column name with an underscore between the two
\* (prefix, "_", snake-case field name); with an empty prefix the column name
\* is exactly the snake-case field name.
C11_PrefixUnderscoreName ==
    op.name \in {"generate_flatten_fields", "generate_flatten_fields(any)"} =>
        LET m == Unwrap(input)
            info == op.args[1]
            columns == Unwrap(ret)
            members == MemberFields(m, DeclIndexOf(m, info))
        IN  /\ Len(columns) = Len(members)
            /\ \A i \in 1..Len(members) :
                   columns[i].column_name
                       = IF info.column_prefix = "" THEN to_snake_case(members[i].name)
                         ELSE info.column_prefix \o "_" \o to_snake_case(members[i].name)

\* C11, as stated: the column name is the prefix followed by the snake-case
\* field name, with nothing between them.
C11_PrefixThenName ==
    op.name \in {"generate_flatten_fields", "generate_flatten_fields(any)"} =>
        LET m == Unwrap(input)
            info == op.args[1]
            columns == Unwrap(ret)
            members == MemberFields(m, DeclIndexOf(m, info))
        IN  /\ Len(columns) = Len(members)
            /\ \A i \in 1..Len(members) :
                   columns[i].column_name
                       = info.column_prefix \o to_snake_case(members[i].name)

\* Flatten columns were generated under the prefix p: the member itemCount
\* got the column p_item_count.
C11_PrefixedColumn ==
    /\ op.name = "generate_flatten_fields"
    /\ op.args[1].column_prefix = "p"
    /\ Len(Unwrap(ret)) = 2
    /\ Unwrap(ret)[2].column_name = "p_item_count"

\* C12: under the json strategy a oneof, however many members it has, yields
\* exactly one column, named by the snake-case oneof name, of column type Json
\* and of an Option type; no member gets a column of its own.
C12_JsonOneColumn ==
    op.name = "generate_json_fields" =>
        LET m == Unwrap(input)
            info == op.args[1]
            columns == Unwrap(ret)
            members == MemberFields(m, DeclIndexOf(m, info))
        IN  /\ info.strategy = "Json"
            /\ Len(columns) = 1
            /\ columns[1].column_name = to_snake_case(info.name)
            /\ columns[1].column_type = Some("Json")
            /\ starts_with(columns[1].type, "Option<")
            /\ \A i \in 1..Len(members) : \A j \in 1..Len(columns) :
                   columns[j].column_name # to_snake_case(members[i].name)

\* The json column pay_load was generated for a oneof of two members.
C12_JsonOverTwoMembers ==
    /\ op.name = "generate_json_fields"
    /\ Len(op.args[1].fields) = 2
    /\ Len(Unwrap(ret)) = 1
    /\ Unwrap(ret)[1].column_name = "pay_load"

\* C13: under the tagged strategy a oneof yields exactly two columns, both
\* Option<String>: a discriminator named by the discriminator_column option
\* when that is non-empty and <snake(oneof)>_type otherwise, and a value
\* column named <snake(oneof)>_value.
C13_TaggedTwoColumns ==
    op.name = "generate_tagged_fields" =>
        LET info == op.args[1]
            columns == Unwrap(ret)
        IN  /\ info.strategy = "Tagged"
            /\ Len(columns) = 2
            /\ columns[1].column_name
                   = IF info.discriminator_column # "" THEN info.discriminator_column
                     ELSE to_snake_case(info.name) \o "_type"
            /\ columns[2].column_name = to_snake_case(info.name) \o "_value"
            /\ columns[1].type = "Option<String>"
            /\ columns[2].type = "Option<String>"

\* Tagged columns were generated for a oneof whose options name the
\* discriminator column kind.
C13_TaggedWithNamedDiscriminator ==
    /\ op.name = "generate_tagged_fields"
    /\ op.args[1].discriminator_column = "kind"
    /\ Unwrap(ret)[1].column_name = "kind"
    /\ Unwrap(ret)[2].column_name = "pay_load_value"

(***************************************************************************)
(* Strategy selection: the option records handed to extract_oneof_settings *)
(* and the strategy texts handed to OneofStrategy::from_str.               *)
(***************************************************************************)
\* Every letter-case spelling of a lower-case word.
RECURSIVE CaseSpellings(_)
CaseSpellings(word) ==
    IF word = "" THEN {""}
    ELSE { c \o rest :
             c \in {CharAt(word, 1), CharAt(UpperCase, find(LowerCase, CharAt(word, 1)))},
             rest \in CaseSpellings(SubSeq(word, 2, Len(word))) }

StrategyTexts ==
    CaseSpellings("json") \cup CaseSpellings("tagged")
    \cup { "", "flatten", "FLATTEN", "unknown", "jso", "jsonn", "json ", " json",
           "js0n", "j_son", "tag", "tagged_", "Tagged1" }

StrategyInputs ==
    { None }
    \cup { Some([strategy |-> s, column_prefix |-> pd[1], discriminator_column |-> pd[2]]) :
             s \in StrategyTexts, pd \in {<<"", "">>, <<"p", "kind">>} }

InitStrategy ==
    /\ cache = OptionsCacheDefault
    /\ poisoned = FALSE
    /\ calls = 0
    /\ lastBytes = None
    /\ lastResult = None
    /\ repeat = FALSE
    /\ op = NoOp
    /\ ret = None
    /\ input \in StrategyInputs
    /\ proc = None

OneofStrategyFromStr ==
    /\ IsSome(input)
    /\ \E r \in {OneofStrategy_from_str(Unwrap(input).strategy)} :
           OneofCall("OneofStrategy::from_str", <<Unwrap(input).strategy>>, r)

ExtractOneofSettings ==
    \E r \in {extract_oneof_settings(input)} :
        OneofCall("extract_oneof_settings", <<input>>, r)

NextStrategy ==
    \/ OneofStrategyFromStr
    \/ ExtractOneofSettings

SpecStrategy == InitStrategy /\ [][NextStrategy]_vars

\* C14: from_str answers Json for every letter-case spelling of json, Tagged
\* for every letter-case spelling of tagged and Flatten for every other text,
\* the empty one included; no oneof options give Flatten with an empty prefix
\* and an empty discriminator name.
C14_StrategySelection ==
    /\ op.name = "OneofStrategy::from_str" =>
           ret = Some(IF op.args[1] \in CaseSpellings("json") THEN "Json"
                      ELSE IF op.args[1] \in CaseSpellings("tagged") THEN "Tagged"
                           ELSE "Flatten")
    /\ (op.name = "extract_oneof_settings" /\ op.args[1] = None) =>
           ret = Some(<<"Flatten", "", "">>)

\* from_str answered Json for a mixed-case spelling, and Flatten for the
\* empty text is within reach of the same input set.
C14_MixedCaseJson ==
    /\ op.name = "OneofStrategy::from_str"
    /\ op.args[1] = "jSoN"
    /\ ret = Some("Json")
    /\ "" \in StrategyTexts

(***************************************************************************)
(* Relation generation (src/codegen/relation.rs).  A relation member of    *)
(* the dense format is a record of what its quote! block holds: the items  *)
(* of the sea_orm attribute in order (a key, and a value unless the item   *)
(* is a bare word), the member's name, its wrapper type and the wrapper's  *)
(* target entity type.                                                     *)
(***************************************************************************)
\* heck::ToUpperCamelCase: the words of the name, each with a capital first
\* letter, joined.
Capitalise(word) ==
    IF word = "" THEN ""
    ELSE LetIn(find(LowerCase, CharAt(word, 1)), LAMBDA l :
            (IF l = 0 THEN CharAt(word, 1) ELSE CharAt(UpperCase, l))
            \o SubSeq(word, 2, Len(word)))

RECURSIVE ConcatCapitalised(_)
ConcatCapitalised(words) ==
    IF words = <<>> THEN ""
    ELSE Capitalise(Head(words)) \o ConcatCapitalised(Tail(words))

to_upper_camel_case(s) ==
    LetIn(split(to_snake_case(s), "_"), LAMBDA words : ConcatCapitalised(words))

\* SeaOrmRelationType::attribute_name
attribute_name(relation_type) ==
    CASE relation_type = "HasOne" -> "has_one"
      [] relation_type = "HasMany" -> "has_many"
      [] relation_type = "BelongsTo" -> "belongs_to"
      [] relation_type = "ManyToMany" -> "many_to_many"

GeneratedRelation(variant_name, relation_type, target_entity, from_column, to_column, via_table) ==
    [variant_name |-> variant_name, relation_type |-> relation_type,
     target_entity |-> target_entity, from_column |-> from_column,
     to_column |-> to_column, via_table |-> via_table]

\* generate_relation: the relation of a field's legacy hints, None without one.
generate_relation(field_name, field_options) ==
    IF field_options.has_one # ""
    THEN Some(GeneratedRelation(to_upper_camel_case(field_options.has_one), "HasOne",
              "super::" \o to_snake_case(field_options.has_one) \o "::Entity",
              None, None, None))
    ELSE IF field_options.has_many # ""
    THEN Some(GeneratedRelation(to_upper_camel_case(field_options.has_many), "HasMany",
              "super::" \o to_snake_case(field_options.has_many) \o "::Entity",
              None, None,
              IF field_options.has_many_via # "" THEN Some(field_options.has_many_via)
              ELSE None))
    ELSE IF field_options.belongs_to # ""
    THEN Some(GeneratedRelation(to_upper_camel_case(field_options.belongs_to), "BelongsTo",
              "super::" \o to_snake_case(field_options.belongs_to) \o "::Entity",
              Some(IF field_options.belongs_to_from = ""
                   THEN to_snake_case(field_options.belongs_to) \o "_id"
                   ELSE field_options.belongs_to_from),
              Some(IF field_options.belongs_to_to = "" THEN "id"
                   ELSE field_options.belongs_to_to),
              None))
    ELSE None

\* A faulty column: Some of the text even when it is empty.
SomeAlways(text) == Some(text)

\* `if !x.is_empty() { Some(x.clone()) } else { None }`
NonEmpty(text) == IF text # "" THEN Some(text) ELSE None

generate_relation_from_def(rel_def) ==
    IF rel_def.name = "" \/ rel_def.related = "" THEN None
    ELSE IF rel_def.type = "Unspecified" THEN None
    ELSE Some(GeneratedRelation(to_upper_camel_case(rel_def.name), rel_def.type,
              "super::" \o to_snake_case(rel_def.related) \o "::Entity",
              IF rel_def.type = "BelongsTo"
              THEN Some(IF rel_def.foreign_key = ""
                        THEN to_snake_case(rel_def.related) \o "_id"
                        ELSE rel_def.foreign_key)
              ELSE NonEmpty(rel_def.foreign_key),
              IF rel_def.type = "BelongsTo"
              THEN Some(IF rel_def.references = "" THEN "id" ELSE rel_def.references)
              ELSE NonEmpty(rel_def.references),
              NonEmpty(rel_def.through)))

\* is_self_ref: the snake-case target is the snake-case entity.
is_self_ref(rel_def, current_entity) ==
    to_snake_case(rel_def.related) = to_snake_case(current_entity)

is_complementary(current_type, rel_type) ==
    \/ current_type = "BelongsTo" /\ rel_type = "HasMany"
    \/ current_type = "BelongsTo" /\ rel_type = "HasOne"
    \/ current_type = "HasMany" /\ rel_type = "BelongsTo"
    \/ current_type = "HasOne" /\ rel_type = "BelongsTo"

\* A variant that pairs relations whatever their foreign keys.
SameFkAlways(current_rel, rel) == TRUE

same_fk(current_rel, rel) ==
    IF current_rel.foreign_key # "" /\ rel.foreign_key # ""
    THEN current_rel.foreign_key = rel.foreign_key
    ELSE TRUE

\* The loop of find_self_ref_reverse from the i-th relation on: the first
\* relation that passes every test gives the answer.
RECURSIVE find_self_ref_reverse_from(_, _, _, _)
find_self_ref_reverse_from(relations, current_rel, current_entity, i) ==
    IF i > Len(relations) THEN None
    ELSE IF /\ relations[i].name # current_rel.name
            /\ is_self_ref(relations[i], current_entity)
            /\ is_complementary(current_rel.type, relations[i].type)
            /\ same_fk(current_rel, relations[i])
         THEN Some(to_upper_camel_case(relations[i].name))
         ELSE find_self_ref_reverse_from(relations, current_rel, current_entity, i + 1)

find_self_ref_reverse(relations, current_rel, current_entity) ==
    IF ~is_self_ref(current_rel, current_entity) THEN None
    ELSE find_self_ref_reverse_from(relations, current_rel, current_entity, 1)

\* The words syn refuses as an identifier of a path segment. It takes self,
\* super and crate there, and try when built with its full feature.
RustKeywords ==
    { "abstract", "as", "async", "await", "become", "box", "break", "const",
      "continue", "do", "dyn", "else", "enum", "extern", "false", "final", "fn",
      "for", "if", "impl", "in", "let", "loop", "macro", "match", "mod", "move",
      "mut", "override", "priv", "pub", "ref", "return", "static", "struct",
      "trait", "true", "type", "typeof", "unsafe", "unsized", "use",
      "virtual", "where", "while", "yield" }

Digits == "0123456789"

\* Whether syn parses the text as one identifier of a path.
IsPathIdent(text) ==
    /\ text # ""
    /\ text # "_"
    /\ text \notin RustKeywords
    /\ find(Digits, CharAt(text, 1)) = 0
    /\ \A i \in 1..Len(text) :
           \/ find(LowerCase, CharAt(text, i)) # 0
           \/ find(UpperCase, CharAt(text, i)) # 0
           \/ find(Digits, CharAt(text, i)) # 0
           \/ CharAt(text, i) = "_"

\* The target entity type: Entity for a self-referential relation, otherwise
\* syn::parse_str("super::<snake>::Entity").unwrap_or_else(|_| Entity).
target_entity_of(rel_def, current_entity) ==
    IF is_self_ref(rel_def, current_entity) THEN "Entity"
    ELSE LetIn(to_snake_case(rel_def.related), LAMBDA module :
            IF IsPathIdent(module) THEN "super::" \o module \o "::Entity"
            ELSE "Entity")

\* The items of a sea_orm attribute: a bare word, or key = "value".
Word(key) == [key |-> key, value |-> None]

KeyEq(key, value) == [key |-> key, value |-> Some(value)]

\* A variant that takes the foreign key as given.
FromColAsGiven(rel_def) == rel_def.foreign_key

from_col(rel_def) ==
    IF rel_def.foreign_key = "" THEN to_snake_case(rel_def.related) \o "_id"
    ELSE rel_def.foreign_key

to_col(rel_def) ==
    IF rel_def.references = "" THEN "id" ELSE rel_def.references

\* The attribute items and the wrapper of each arm of the match on rel_type.
has_one_arm(rel_def, self_ref, relation_reverse) ==
    LetIn(to_upper_camel_case(rel_def.name), LAMBDA relation_enum_name :
        [wrapper |-> "HasOne",
         items |->
            IF self_ref
            THEN IF IsSome(relation_reverse)
                 THEN <<Word("has_one"), Word("self_ref"),
                        KeyEq("relation_enum", relation_enum_name),
                        KeyEq("relation_reverse", Unwrap(relation_reverse))>>
                 ELSE <<Word("has_one"), Word("self_ref"),
                        KeyEq("relation_enum", relation_enum_name)>>
            ELSE <<Word("has_one")>>])

has_many_arm(rel_def, self_ref, relation_reverse) ==
    LetIn(to_upper_camel_case(rel_def.name), LAMBDA relation_enum_name :
        [wrapper |-> "HasMany",
         items |->
            IF rel_def.through # ""
            THEN LetIn(to_snake_case(rel_def.through), LAMBDA via_module :
                    IF self_ref
                    THEN IF IsSome(relation_reverse)
                         THEN <<Word("has_many"), Word("self_ref"),
                                KeyEq("relation_enum", relation_enum_name),
                                KeyEq("relation_reverse", Unwrap(relation_reverse)),
                                KeyEq("via", via_module)>>
                         ELSE <<Word("has_many"), Word("self_ref"),
                                KeyEq("relation_enum", relation_enum_name),
                                KeyEq("via", via_module)>>
                    ELSE <<Word("has_many"), KeyEq("via", via_module)>>)
            ELSE IF self_ref
                 THEN IF IsSome(relation_reverse)
                      THEN <<Word("has_many"), Word("self_ref"),
                             KeyEq("relation_enum", relation_enum_name),
                             KeyEq("relation_reverse", Unwrap(relation_reverse))>>
                      ELSE <<Word("has_many"), Word("self_ref"),
                             KeyEq("relation_enum", relation_enum_name)>>
                 ELSE <<Word("has_many")>>])

belongs_to_arm(rel_def, self_ref, relation_reverse) ==
    LetIn(to_upper_camel_case(rel_def.name), LAMBDA relation_enum_name :
        [wrapper |-> "HasOne",
         items |->
            IF self_ref
            THEN IF IsSome(relation_reverse)
                 THEN <<Word("self_ref"),
                        KeyEq("relation_enum", relation_enum_name),
                        KeyEq("relation_reverse", Unwrap(relation_reverse)),
                        KeyEq("from", from_col(rel_def)), KeyEq("to", to_col(rel_def))>>
                 ELSE <<Word("belongs_to"), Word("self_ref"),
                        KeyEq("relation_enum", relation_enum_name),
                        KeyEq("from", from_col(rel_def)), KeyEq("to", to_col(rel_def))>>
            ELSE <<Word("belongs_to"),
                   KeyEq("from", from_col(rel_def)), KeyEq("to", to_col(rel_def))>>])

many_to_many_arm(rel_def, self_ref) ==
    LetIn(to_upper_camel_case(rel_def.name), LAMBDA relation_enum_name :
        [wrapper |-> "HasMany",
         items |->
            IF rel_def.through # ""
            THEN LetIn(to_snake_case(rel_def.through), LAMBDA via_module :
                    IF self_ref
                    THEN <<Word("has_many"), Word("self_ref"),
                           KeyEq("relation_enum", relation_enum_name),
                           KeyEq("via", via_module)>>
                    ELSE <<Word("has_many"), KeyEq("via", via_module)>>)
            ELSE IF self_ref
                 THEN <<Word("has_many"), Word("self_ref"),
                        KeyEq("relation_enum", relation_enum_name)>>
                 ELSE <<Word("has_many")>>])

generate_relation_field_with_reverse(rel_def, current_entity, relation_reverse) ==
    IF rel_def.name = "" \/ rel_def.related = "" THEN None
    ELSE IF rel_def.type = "Unspecified" THEN None
    ELSE LetIn(is_self_ref(rel_def, current_entity), LAMBDA self_ref :
            LetIn(CASE rel_def.type = "HasOne" ->
                            has_one_arm(rel_def, self_ref, relation_reverse)
                    [] rel_def.type = "HasMany" ->
                            has_many_arm(rel_def, self_ref, relation_reverse)
                    [] rel_def.type = "BelongsTo" ->
                            belongs_to_arm(rel_def, self_ref, relation_reverse)
                    [] rel_def.type = "ManyToMany" ->
                            many_to_many_arm(rel_def, self_ref),
                  LAMBDA arm :
                Some([attribute |-> arm.items,
                      field_name |-> to_snake_case(rel_def.name),
                      wrapper |-> arm.wrapper,
                      target_entity |-> target_entity_of(rel_def, current_entity)])))

generate_relation_field(rel_def, current_entity) ==
    generate_relation_field_with_reverse(rel_def, current_entity, None)

\* relations.iter().filter_map(|rel| ..).collect(), from the i-th relation on.
RECURSIVE generate_relation_fields_from(_, _, _)
generate_relation_fields_from(relations, current_entity, i) ==
    IF i > Len(relations) THEN <<>>
    ELSE LetIn(find_self_ref_reverse(relations, relations[i], current_entity),
               LAMBDA reverse :
            LetIn(generate_relation_field_with_reverse(relations[i], current_entity,
                                                       reverse),
                  LAMBDA member :
                member \o generate_relation_fields_from(relations, current_entity, i + 1)))

generate_relation_fields(relations, current_entity) ==
    generate_relation_fields_from(relations, current_entity, 1)

\* str::replace of every occurrence of a pattern by nothing.
RECURSIVE remove_all(_, _)
remove_all(text, pattern) ==
    LetIn(find(text, pattern), LAMBDA at :
        IF at = 0 THEN text
        ELSE SubSeq(text, 1, at - 1)
             \o remove_all(SubSeq(text, at + Len(pattern), Len(text)), pattern))

\* generate_relation_attribute: the attribute text of the enum-based form.
generate_relation_attribute(relation) ==
    CASE relation.relation_type = "HasOne" ->
            "has_one = \"" \o relation.target_entity \o "\""
      [] relation.relation_type = "HasMany" ->
            IF IsSome(relation.via_table)
            THEN "has_many = \"" \o relation.target_entity \o "\", via = \""
                 \o Unwrap(relation.via_table) \o "\""
            ELSE "has_many = \"" \o relation.target_entity \o "\""
      [] relation.relation_type = "BelongsTo" ->
            "belongs_to = \"" \o relation.target_entity \o "\", from = \"Column::"
            \o to_upper_camel_case(IF IsSome(relation.from_column)
                                   THEN Unwrap(relation.from_column) ELSE "id")
            \o "\", to = \"super::"
            \o remove_all(remove_all(relation.target_entity, "super::"), "::Entity")
            \o "::Column::"
            \o to_upper_camel_case(IF IsSome(relation.to_column)
                                   THEN Unwrap(relation.to_column) ELSE "id")
            \o "\""
      [] relation.relation_type = "ManyToMany" ->
            IF IsSome(relation.via_table)
            THEN "many_to_many = \"" \o relation.target_entity
                 \o "\", via = \"super::" \o to_snake_case(Unwrap(relation.via_table))
                 \o "::Entity\""
            ELSE "has_many = \"" \o relation.target_entity \o "\""

(***************************************************************************)
(* The inputs of the relation functions: the relation list of an entity's  *)
(* model options, or the legacy hints of one field's options.              *)
(***************************************************************************)
MaxRelations == 3

Relation(type, related, foreign_key, references, through) ==
    [DefaultRelationDef EXCEPT !.type = type, !.related = related,
                               !.foreign_key = foreign_key,
                               !.references = references, !.through = through]

CurrentEntity == "Comment"

\* The belongs-to and has-many relations of the entity to itself, with keys
\* that agree or differ.
CoreRelations ==
    { Relation("BelongsTo", "Comment", "parent_id", "", ""),
      Relation("HasMany", "Comment", "parent_id", "", ""),
      Relation("HasMany", "Comment", "root_id", "", "") }

\* Relations of the entity to itself, of every kind.
SelfRelations ==
    CoreRelations
    \cup { Relation("BelongsTo", "Comment", "", "", ""),
           Relation("BelongsTo", "comment", "root_id", "uuid", ""),
           Relation("HasMany", "Comment", "", "", ""),
           Relation("HasOne", "Comment", "root_id", "", ""),
           Relation("ManyToMany", "Comment", "", "", "") }

\* Relations through a junction, to other entities, of no kind, to an entity
\* whose module name is a keyword, and to no entity.
OtherRelations ==
    { Relation("HasMany", "Comment", "", "", "CommentLink"),
      Relation("ManyToMany", "Comment", "", "", "CommentLink"),
      Relation("BelongsTo", "UserProfile", "", "", ""),
      Relation("BelongsTo", "User", "author_id", "uuid", ""),
      Relation("HasMany", "User", "", "", ""),
      Relation("HasOne", "User", "comment_id", "", ""),
      Relation("ManyToMany", "User", "", "", ""),
      Relation("ManyToMany", "User", "", "", "CommentLike"),
      Relation("HasMany", "User", "", "", "CommentLike"),
      Relation("Unspecified", "Comment", "", "", ""),
      Relation("HasMany", "Type", "", "", ""),
      Relation("BelongsTo", "", "", "", "") }

\* The relation names of a list, by position.
RelationNames == <<"parent", "childComments", "replies", "linked", "more">>

Named(shapes) == [i \in 1..Len(shapes) |-> [shapes[i] EXCEPT !.name = RelationNames[i]]]

RelationLists ==
    UNION { { Named(shapes) : shapes \in [1..n -> CoreRelations] } : n \in 1..MaxRelations }
    \cup { Named(<<r, q>>) : r \in SelfRelations, q \in SelfRelations \cup OtherRelations }
    \cup { Named(<<q, r>>) : r \in SelfRelations, q \in OtherRelations }
    \cup { Named(<<r>>) : r \in SelfRelations \cup OtherRelations }
    \cup { <<r>> : r \in SelfRelations }

HintOptions ==
    { [DefaultFieldOptions EXCEPT !.belongs_to = b, !.belongs_to_from = f,
                                  !.belongs_to_to = t, !.has_one = o,
                                  !.has_many = m, !.has_many_via = v] :
        b \in {"", "user", "UserProfile"}, f \in {"", "owner_id"}, t \in {"", "uuid"},
        o \in {"", "profile"}, m \in {"", "post"}, v \in {"", "post_tags"} }

RelationInputs ==
    { [kind |-> "relations", relations |-> l, current_entity |-> CurrentEntity] :
        l \in RelationLists }
    \cup { [kind |-> "hint", field_name |-> "owner", field_options |-> o] :
             o \in HintOptions }

InitRelation ==
    /\ cache = OptionsCacheDefault
    /\ poisoned = FALSE
    /\ calls = 0
    /\ lastBytes = None
    /\ lastResult = None
    /\ repeat = FALSE
    /\ op = NoOp
    /\ ret = None
    /\ input \in RelationInputs
    /\ proc = None

\* One call of a function of relation.rs on the input at hand.
RelationCall(name, args, result) ==
    /\ op' = [name |-> name, args |-> args]
    /\ ret' = Some(result)
    /\ UNCHANGED <<cache, poisoned, calls, lastBytes, lastResult, repeat, input, proc>>

GenerateRelation ==
    /\ input.kind = "hint"
    /\ \E r \in {generate_relation(input.field_name, input.field_options)} :
           RelationCall("generate_relation", <<>>, r)

GenerateRelationFromDef ==
    /\ input.kind = "relations"
    /\ \E i \in 1..Len(input.relations) :
           \E r \in {generate_relation_from_def(input.relations[i])} :
               RelationCall("generate_relation_from_def", <<i>>, r)

FindSelfRefReverse ==
    /\ input.kind = "relations"
    /\ \E i \in 1..Len(input.relations) :
           \E r \in {find_self_ref_reverse(input.relations, input.relations[i],
                                           input.current_entity)} :
               RelationCall("find_self_ref_reverse", <<i>>, r)

GenerateRelationFields ==
    /\ input.kind = "relations"
    /\ \E r \in {generate_relation_fields(input.relations, input.current_entity)} :
           RelationCall("generate_relation_fields", <<>>, r)

GenerateRelationField ==
    /\ input.kind = "relations"
    /\ \E i \in 1..Len(input.relations) :
           \E r \in {generate_relation_field(input.relations[i], input.current_entity)} :
               RelationCall("generate_relation_field", <<i>>, r)

\* The attribute text of a relation that generate_relation_from_def built.
GenerateRelationAttribute ==
    /\ input.kind = "relations"
    /\ \E i \in 1..Len(input.relations) :
           \E relation \in {generate_relation_from_def(input.relations[i])} :
               /\ IsSome(relation)
               /\ \E r \in {generate_relation_attribute(Unwrap(relation))} :
                      RelationCall("generate_relation_attribute", <<i>>, r)

NextRelation ==
    \/ GenerateRelation
    \/ GenerateRelationFromDef
    \/ FindSelfRefReverse
    \/ GenerateRelationFields
    \/ GenerateRelationField
    \/ GenerateRelationAttribute

SpecRelation == InitRelation /\ [][NextRelation]_vars

(***************************************************************************)
(* Reading the recorded call: the relation a call was about, and the       *)
(* member that generate_relation_fields emitted for a relation of the      *)
(* list.                                                                   *)
(***************************************************************************)
\* A relation record for which a member is emitted.
Emitted(rel_def) ==
    rel_def.name # "" /\ rel_def.related # "" /\ rel_def.type # "Unspecified"

EmittedUpTo(relations, i) == Cardinality({j \in 1..i : Emitted(relations[j])})

FieldsCalled == input.kind = "relations" /\ op.name = "generate_relation_fields"

\* The member emitted for the i-th relation of the list.
MemberOf(i) == Unwrap(ret)[EmittedUpTo(input.relations, i)]

ItemsWith(items, key) == {k \in 1..Len(items) : items[k].key = key}

HasWord(items, key) == \E k \in 1..Len(items) : items[k] = Word(key)

HasKeyEq(items, key, value) == \E k \in 1..Len(items) : items[k] = KeyEq(key, value)

HasKey(items, key) == ItemsWith(items, key) # {}

SelfRef(i) == is_self_ref(input.relations[i], input.current_entity)

\* The columns of a belongs-to relation with the defaults filled in.
ForeignKeyOrDefault(given, target) ==
    IF given # "" THEN given ELSE to_snake_case(target) \o "_id"

ReferencesOrDefault(given) == IF given # "" THEN given ELSE "id"

\* C15: every belongs-to relation, given as a relation record or as a legacy
\* per-field hint, has the foreign-key column that was given when non-empty
\* and <snake(target)>_id otherwise, and the referenced column that was given
\* when non-empty and id otherwise; generate_relation_from_def, the member
\* generator and generate_relation apply the same defaults.
C15_BelongsToDefaults ==
    /\ (input.kind = "relations" /\ op.name = "generate_relation_from_def"
        /\ input.relations[op.args[1]].type = "BelongsTo" /\ IsSome(Unwrap(ret)))
       => LET rel_def == input.relations[op.args[1]]
              relation == Unwrap(Unwrap(ret))
          IN  /\ relation.from_column
                   = Some(ForeignKeyOrDefault(rel_def.foreign_key, rel_def.related))
              /\ relation.to_column = Some(ReferencesOrDefault(rel_def.references))
    /\ (input.kind = "relations" /\ op.name = "generate_relation_field"
        /\ input.relations[op.args[1]].type = "BelongsTo" /\ IsSome(Unwrap(ret)))
       => LET rel_def == input.relations[op.args[1]]
              items == Unwrap(Unwrap(ret)).attribute
          IN  /\ HasKeyEq(items, "from",
                          ForeignKeyOrDefault(rel_def.foreign_key, rel_def.related))
              /\ HasKeyEq(items, "to", ReferencesOrDefault(rel_def.references))
              /\ Cardinality(ItemsWith(items, "from")) = 1
              /\ Cardinality(ItemsWith(items, "to")) = 1
    /\ FieldsCalled
       => \A i \in 1..Len(input.relations) :
            (input.relations[i].type = "BelongsTo" /\ Emitted(input.relations[i]))
            => LET rel_def == input.relations[i]
                   items == MemberOf(i).attribute
               IN  /\ HasKeyEq(items, "from",
                               ForeignKeyOrDefault(rel_def.foreign_key, rel_def.related))
                   /\ HasKeyEq(items, "to", ReferencesOrDefault(rel_def.references))
                   /\ Cardinality(ItemsWith(items, "from")) = 1
                   /\ Cardinality(ItemsWith(items, "to")) = 1
    /\ (input.kind = "hint" /\ op.name = "generate_relation" /\ IsSome(Unwrap(ret))
        /\ Unwrap(Unwrap(ret)).relation_type = "BelongsTo")
       => LET o == input.field_options
              relation == Unwrap(Unwrap(ret))
          IN  /\ relation.from_column
                   = Some(ForeignKeyOrDefault(o.belongs_to_from, o.belongs_to))
              /\ relation.to_column = Some(ReferencesOrDefault(o.belongs_to_to))

\* A belongs-to member emitted with the default foreign key and a given
\* referenced column, next to one with both given.
C15_DefaultAndGivenColumns ==
    /\ FieldsCalled
    /\ \E i \in 1..Len(input.relations) :
          /\ input.relations[i].type = "BelongsTo" /\ Emitted(input.relations[i])
          /\ input.relations[i].foreign_key = ""
          /\ input.relations[i].related = "UserProfile"
          /\ HasKeyEq(MemberOf(i).attribute, "from", "user_profile_id")
          /\ HasKeyEq(MemberOf(i).attribute, "to", "id")
    /\ \E i \in 1..Len(input.relations) :
          /\ input.relations[i].type = "BelongsTo" /\ Emitted(input.relations[i])
          /\ input.relations[i].foreign_key = "root_id"
          /\ input.relations[i].references = "uuid"
          /\ HasKeyEq(MemberOf(i).attribute, "to", "uuid")

\* The relation list with the kind of its i-th relation replaced.
WithKind(relations, i, kind) == [relations EXCEPT ![i].type = kind]

\* The member that generate_relation_fields emits for the i-th relation.
MemberIn(relations, i) ==
    generate_relation_fields(relations, input.current_entity)[EmittedUpTo(relations, i)]

\* C16: a many-to-many relation record with an empty junction entity is
\* emitted exactly as a has-many relation to the same target would be, a
\* HasMany member with a has_many attribute and no via clause; with a
\* non-empty junction it is emitted as has_many with via set to the
\* snake-case junction name.
C16_ManyToManyAsHasMany ==
    /\ FieldsCalled
       => \A i \in 1..Len(input.relations) :
            (input.relations[i].type = "ManyToMany" /\ Emitted(input.relations[i]))
            => /\ MemberOf(i).wrapper = "HasMany"
               /\ HasWord(MemberOf(i).attribute, "has_many")
               /\ IF input.relations[i].through = ""
                  THEN /\ ~HasKey(MemberOf(i).attribute, "via")
                       /\ MemberOf(i) = MemberIn(WithKind(input.relations, i, "HasMany"), i)
                  ELSE HasKeyEq(MemberOf(i).attribute, "via",
                                to_snake_case(input.relations[i].through))
    /\ (input.kind = "relations" /\ op.name = "generate_relation_field"
        /\ input.relations[op.args[1]].type = "ManyToMany" /\ IsSome(Unwrap(ret)))
       => LET rel_def == input.relations[op.args[1]]
              member == Unwrap(Unwrap(ret))
          IN  /\ member.wrapper = "HasMany"
              /\ HasWord(member.attribute, "has_many")
              /\ IF rel_def.through = ""
                 THEN /\ ~HasKey(member.attribute, "via")
                      /\ Some(member)
                           = generate_relation_field([rel_def EXCEPT !.type = "HasMany"],
                                                     input.current_entity)
                 ELSE HasKeyEq(member.attribute, "via", to_snake_case(rel_def.through))

\* A many-to-many relation of the entity to itself, without junction, next to
\* a belongs-to relation of the entity to itself: it is emitted without the
\* reverse partner that a has-many relation in its place is emitted with.
C16_ManyToManyWithoutPartner ==
    /\ FieldsCalled
    /\ Len(input.relations) = 2
    /\ input.relations[1].type = "BelongsTo" /\ SelfRef(1)
    /\ input.relations[2].type = "ManyToMany" /\ SelfRef(2)
    /\ input.relations[2].through = ""
    /\ ~HasKey(MemberOf(2).attribute, "relation_reverse")
    /\ HasKeyEq(MemberIn(WithKind(input.relations, 2, "HasMany"), 2).attribute,
                "relation_reverse", "Parent")

\* The statement of C16 on the lists in which no many-to-many relation of the
\* entity to itself has a belongs-to relation of the entity to itself beside it.
C16_HoldsWithoutSelfRefBelongsTo ==
    (input.kind = "relations" /\ \E i, j \in 1..Len(input.relations) :
        /\ input.relations[i].type = "ManyToMany" /\ SelfRef(i)
        /\ input.relations[j].type = "BelongsTo" /\ SelfRef(j))
    \/ C16_ManyToManyAsHasMany

\* Belongs-to with has-one or has-many, in either order.
ComplementaryKinds(a, b) ==
    \/ a.type = "BelongsTo" /\ b.type \in {"HasOne", "HasMany"}
    \/ b.type = "BelongsTo" /\ a.type \in {"HasOne", "HasMany"}

\* Equal foreign keys, or at least one unspecified.
ForeignKeysAgree(a, b) ==
    a.foreign_key = "" \/ b.foreign_key = "" \/ a.foreign_key = b.foreign_key

\* Two distinct relations of the list that are both relations of the entity
\* to itself, of complementary kinds, with foreign keys that agree.
Partners(i, j) ==
    /\ i # j
    /\ Emitted(input.relations[i]) /\ Emitted(input.relations[j])
    /\ SelfRef(i) /\ SelfRef(j)
    /\ ComplementaryKinds(input.relations[i], input.relations[j])
    /\ ForeignKeysAgree(input.relations[i], input.relations[j])

\* The member of the i-th relation names the j-th relation as its partner.
NamesAsReverse(i, j) ==
    HasKeyEq(MemberOf(i).attribute, "relation_reverse",
             to_upper_camel_case(input.relations[j].name))

\* C17: reverse-partner naming is symmetric: of every two distinct relations
\* of a list that are both self-referential, of complementary kinds and with
\* agreeing foreign keys, generate_relation_fields emits each with
\* relation_reverse naming the other, also when the list holds further
\* self-referential relations.
C17_ReverseSymmetric ==
    FieldsCalled
    => \A i, j \in 1..Len(input.relations) :
          Partners(i, j) => NamesAsReverse(i, j) /\ NamesAsReverse(j, i)

\* A belongs-to relation with two has-many partners: both has-many members
\* name it, and it names the first of them only.
C17_SecondPartnerNotNamed ==
    /\ FieldsCalled
    /\ Len(input.relations) = 3
    /\ Partners(1, 2) /\ Partners(1, 3)
    /\ input.relations[1].type = "BelongsTo"
    /\ NamesAsReverse(2, 1) /\ NamesAsReverse(3, 1)
    /\ NamesAsReverse(1, 2) /\ ~NamesAsReverse(1, 3)

\* The statement of C17 on the lists in which no relation has two partners.
C17_HoldsForOnePartner ==
    (FieldsCalled /\ \E i, j, k \in 1..Len(input.relations) :
                         j # k /\ Partners(i, j) /\ Partners(i, k))
    \/ C17_ReverseSymmetric

\* Two relations of the entity to itself, of complementary kinds, that both
\* specify a foreign key, with different foreign keys.
KeysDiffer(i, j) ==
    /\ i # j
    /\ SelfRef(i) /\ SelfRef(j)
    /\ ComplementaryKinds(input.relations[i], input.relations[j])
    /\ input.relations[i].foreign_key # "" /\ input.relations[j].foreign_key # ""
    /\ input.relations[i].foreign_key # input.relations[j].foreign_key

\* A sibling that find_self_ref_reverse may pair the i-th relation with.
Candidate(i, j) ==
    /\ i # j
    /\ SelfRef(j)
    /\ ComplementaryKinds(input.relations[i], input.relations[j])
    /\ ~KeysDiffer(i, j)

NoReverse(i) == ~HasKey(MemberOf(i).attribute, "relation_reverse")

C18_OtherKeyPassedOver ==
    /\ input.kind = "relations" /\ op.name = "find_self_ref_reverse"
    /\ Len(input.relations) = 3
    /\ op.args[1] = 1
    /\ KeysDiffer(1, 2)
    /\ input.relations[1].type = "BelongsTo"
    /\ Unwrap(ret) = Some("Replies")

KindWord(type) ==
    CASE type = "BelongsTo" -> "belongs_to"
      [] type = "HasOne" -> "has_one"
      [] type = "HasMany" -> "has_many"
      [] type = "ManyToMany" -> "has_many"

\* An attribute that encodes the kind of the relation it was emitted for.
EncodesKind(rel_def, items) ==
    /\ HasWord(items, KindWord(rel_def.type))
    /\ rel_def.type = "BelongsTo" => HasKey(items, "from") /\ HasKey(items, "to")

\* C19: every emitted relation member carries an attribute that encodes the
\* relation's kind: belongs_to with from and to columns for a belongs-to
\* record, has_one for a has-one record, has_many for a has-many or
\* many-to-many record, for self-referential relations with and without a
\* reverse partner.
C19_AttributeEncodesKind ==
    /\ FieldsCalled
       => \A i \in 1..Len(input.relations) :
            Emitted(input.relations[i])
            => EncodesKind(input.relations[i], MemberOf(i).attribute)
    /\ (input.kind = "relations" /\ op.name = "generate_relation_field"
        /\ IsSome(Unwrap(ret)))
       => EncodesKind(input.relations[op.args[1]], Unwrap(Unwrap(ret)).attribute)

\* A belongs-to relation of the entity to itself with a reverse partner,
\* emitted with from and to columns and without the word belongs_to.
C19_BelongsToWordMissing ==
    /\ FieldsCalled
    /\ Len(input.relations) = 2
    /\ input.relations[1].type = "BelongsTo" /\ SelfRef(1)
    /\ input.relations[2].type = "HasMany" /\ SelfRef(2)
    /\ NamesAsReverse(1, 2)
    /\ HasKey(MemberOf(1).attribute, "from") /\ HasKey(MemberOf(1).attribute, "to")
    /\ ~HasWord(MemberOf(1).attribute, "belongs_to")
    /\ MemberOf(1).wrapper = "HasOne"

\* The statement of C19 on the members that are not belongs-to members with a
\* reverse partner.
C19_HoldsWithoutBelongsToPartner ==
    /\ FieldsCalled
       => \A i \in 1..Len(input.relations) :
            (/\ Emitted(input.relations[i])
             /\ ~(input.relations[i].type = "BelongsTo" /\ ~NoReverse(i)))
            => EncodesKind(input.relations[i], MemberOf(i).attribute)
    /\ (input.kind = "relations" /\ op.name = "generate_relation_field"
        /\ IsSome(Unwrap(ret)))
       => EncodesKind(input.relations[op.args[1]], Unwrap(Unwrap(ret)).attribute)

\* What the claim asks of the member emitted for a relation record.
SelfRefEncoded(rel_def, member) ==
    IF to_snake_case(rel_def.related) = to_snake_case(input.current_entity)
    THEN /\ HasWord(member.attribute, "self_ref")
         /\ HasKeyEq(member.attribute, "relation_enum", to_upper_camel_case(rel_def.name))
         /\ member.target_entity = "Entity"
    ELSE /\ ~HasKey(member.attribute, "self_ref")
         /\ ~HasKey(member.attribute, "relation_enum")
         /\ ~HasKey(member.attribute, "relation_reverse")
         /\ member.target_entity
              = "super::" \o to_snake_case(rel_def.related) \o "::Entity"

\* C20: a relation record is treated as self-referential exactly when
\* snake_case(related) equals snake_case(current entity name): then, for each
\* of the four kinds, the attribute contains self_ref and relation_enum =
\* UpperCamel(relation name) and the target type is the local Entity;
\* otherwise the attribute contains neither self_ref, relation_enum nor
\* relation_reverse and the target type is super::<snake(related)>::Entity.
C20_SelfRefExactlyWhenSameSnake ==
    /\ FieldsCalled
       => \A i \in 1..Len(input.relations) :
            Emitted(input.relations[i])
            => SelfRefEncoded(input.relations[i], MemberOf(i))
    /\ (input.kind = "relations" /\ op.name = "generate_relation_field"
        /\ IsSome(Unwrap(ret)))
       => SelfRefEncoded(input.relations[op.args[1]], Unwrap(Unwrap(ret)))

\* A has-many relation to the entity Type, emitted without self_ref and with
\* the local Entity as its target type.
C20_KeywordTargetIsLocalEntity ==
    /\ FieldsCalled
    /\ Len(input.relations) = 1
    /\ input.relations[1].related = "Type"
    /\ input.relations[1].type = "HasMany"
    /\ ~SelfRef(1)
    /\ ~HasKey(MemberOf(1).attribute, "self_ref")
    /\ MemberOf(1).wrapper = "HasMany"
    /\ MemberOf(1).target_entity = "Entity"

\* A relation to itself under another spelling of the entity's name, emitted
\* as self-referential.
C20_OtherSpellingIsSelfRef ==
    /\ FieldsCalled
    /\ \E i \in 1..Len(input.relations) :
          /\ input.relations[i].related = "comment"
          /\ Emitted(input.relations[i])
          /\ HasWord(MemberOf(i).attribute, "self_ref")
          /\ MemberOf(i).target_entity = "Entity"

\* The statement of C20 on the relations whose target's module name is no
\* keyword.
C20_HoldsForOtherTargets ==
    /\ FieldsCalled
       => \A i \in 1..Len(input.relations) :
            (/\ Emitted(input.relations[i])
             /\ to_snake_case(input.relations[i].related) \notin RustKeywords)
            => SelfRefEncoded(input.relations[i], MemberOf(i))
    /\ (/\ input.kind = "relations" /\ op.name = "generate_relation_field"
        /\ IsSome(Unwrap(ret))
        /\ to_snake_case(input.relations[op.args[1]].related) \notin RustKeywords)
       => SelfRefEncoded(input.relations[op.args[1]], Unwrap(Unwrap(ret)))

(***************************************************************************)
(* split_aggregate_parts_simple as a scan, one character per step: the     *)
(* loop's locals are the scan state.                                       *)
(***************************************************************************)
MaxAggregateLen == 4

I32Min == -2147483647 - 1

\* A variant that holds the counter at zero.
SaturatingSubOneAtZero(n) == IF n = 0 THEN 0 ELSE n - 1

\* i32::saturating_sub(1): the counter minus one, held at i32::MIN.
saturating_sub_one(n) == IF n = I32Min THEN I32Min ELSE n - 1

ScanStart == [i |-> 1, start |-> 1, brace_depth |-> 0, bracket_depth |-> 0, parts |-> <<>>]

\* A variant of the loop body that takes brackets for ordinary characters.
SplitStepBracesOnly(aggregate, scan) ==
    LetIn(CharAt(aggregate, scan.i), LAMBDA c :
        CASE c = "{" -> [scan EXCEPT !.i = @ + 1, !.brace_depth = @ + 1]
          [] c = "}" -> [scan EXCEPT !.i = @ + 1, !.brace_depth = saturating_sub_one(@)]
          [] c = "," /\ scan.brace_depth = 0 ->
                [scan EXCEPT !.i = @ + 1, !.start = scan.i + 1,
                             !.parts = Append(@, SubSeq(aggregate, scan.start, scan.i - 1))]
          [] OTHER -> [scan EXCEPT !.i = @ + 1])

\* The body of the loop over aggregate.char_indices(), on the character at
\* scan.i.
split_simple_step(aggregate, scan) ==
    LetIn(CharAt(aggregate, scan.i), LAMBDA c :
        CASE c = "{" -> [scan EXCEPT !.i = @ + 1, !.brace_depth = @ + 1]
          [] c = "}" -> [scan EXCEPT !.i = @ + 1, !.brace_depth = saturating_sub_one(@)]
          [] c = "[" -> [scan EXCEPT !.i = @ + 1, !.bracket_depth = @ + 1]
          [] c = "]" -> [scan EXCEPT !.i = @ + 1, !.bracket_depth = saturating_sub_one(@)]
          [] c = "," /\ scan.brace_depth = 0 /\ scan.bracket_depth = 0 ->
                [scan EXCEPT !.i = @ + 1, !.start = scan.i + 1,
                             !.parts = Append(@, SubSeq(aggregate, scan.start, scan.i - 1))]
          [] OTHER -> [scan EXCEPT !.i = @ + 1])

\* After the loop: the rest of the text is a part unless it is empty.
split_simple_finish(aggregate, scan) ==
    IF scan.start <= Len(aggregate)
    THEN Append(scan.parts, SubSeq(aggregate, scan.start, Len(aggregate)))
    ELSE scan.parts

AggregateChars == {"a", ",", "{", "}", "[", "]"}

RECURSIVE TextsOfLen(_)
TextsOfLen(n) ==
    IF n = 0 THEN {""}
    ELSE {t \o c : t \in TextsOfLen(n - 1), c \in AggregateChars}

AggregateTexts == UNION {TextsOfLen(n) : n \in 0..MaxAggregateLen}

InitSplit ==
    /\ cache = OptionsCacheDefault
    /\ poisoned = FALSE
    /\ calls = 0
    /\ lastBytes = None
    /\ lastResult = None
    /\ repeat = FALSE
    /\ op = [name |-> "split_aggregate_parts_simple", args |-> <<>>]
    /\ ret = None
    /\ input \in AggregateTexts
    /\ proc = Some(ScanStart)

\* One iteration of the loop.
SplitScanChar ==
    /\ IsSome(proc)
    /\ Unwrap(proc).i <= Len(input)
    /\ \E next \in {split_simple_step(input, Unwrap(proc))} : proc' = Some(next)
    /\ UNCHANGED <<cache, poisoned, calls, lastBytes, lastResult, repeat, op, ret, input>>

\* The loop is over: the last part is pushed and the parts are returned.
SplitReturn ==
    /\ IsSome(proc)
    /\ Unwrap(proc).i > Len(input)
    /\ ret = None
    /\ ret' = Some(split_simple_finish(input, Unwrap(proc)))
    /\ UNCHANGED <<cache, poisoned, calls, lastBytes, lastResult, repeat, op, input, proc>>

NextSplit == SplitScanChar \/ SplitReturn

SpecSplit == InitSplit /\ [][NextSplit]_vars

\* The scan and the function as a whole give the same parts.
SplitScanIsSplit == IsSome(ret) => Unwrap(ret) = split_aggregate_parts_simple(input)

\* The openers less the closers among the first i characters of a text.
DepthAt(text, i, open, close) ==
    Cardinality({j \in 1..i : CharAt(text, j) = open})
    - Cardinality({j \in 1..i : CharAt(text, j) = close})

\* Every closer closes an earlier opener of its kind, and every opener is
\* closed.
Balanced(text) ==
    /\ \A i \in 0..Len(text) :
          DepthAt(text, i, "{", "}") >= 0 /\ DepthAt(text, i, "[", "]") >= 0
    /\ DepthAt(text, Len(text), "{", "}") = 0
    /\ DepthAt(text, Len(text), "[", "]") = 0

Commas(text) == {i \in 1..Len(text) : CharAt(text, i) = ","}

\* The commas outside every brace pair and every bracket pair.
TopLevelCommas(text) ==
    {i \in Commas(text) :
        DepthAt(text, i, "{", "}") = 0 /\ DepthAt(text, i, "[", "]") = 0}

RECURSIVE JoinWithCommas(_)
JoinWithCommas(parts) ==
    IF parts = <<>> THEN ""
    ELSE IF Len(parts) = 1 THEN parts[1]
    ELSE parts[1] \o "," \o JoinWithCommas(Tail(parts))

RECURSIVE LenOfFirst(_, _)
LenOfFirst(parts, k) == IF k = 0 THEN 0 ELSE LenOfFirst(parts, k - 1) + Len(parts[k])

\* The position in the joined text of the comma after the k-th part.
SeparatorAfter(parts, k) == LenOfFirst(parts, k) + k

\* C21: split_aggregate_parts_simple splits a text with balanced braces and
\* brackets exactly at the commas outside every brace pair and every bracket
\* pair: joining the parts with commas gives the text back, up to a dropped
\* empty last part; the commas between the parts are the top-level commas of
\* the text, so no part holds a top-level comma and every nested comma stays
\* inside one part.
C21_SplitAtTopLevelCommas ==
    (op.name = "split_aggregate_parts_simple" /\ IsSome(ret) /\ Balanced(input))
    => LET parts == Unwrap(ret)
           joined == JoinWithCommas(parts)
       IN  /\ input = joined \/ (parts # <<>> /\ input = joined \o ",")
           /\ TopLevelCommas(input)
                = {SeparatorAfter(parts, k) : k \in 1..Len(parts)} \cap Commas(input)
           /\ \A i \in Commas(input) \ TopLevelCommas(input) :
                \E k \in 1..Len(parts) :
                    /\ SeparatorAfter(parts, k - 1) < i
                    /\ i < SeparatorAfter(parts, k)

\* A balanced text split at its top-level comma with a nested comma kept in
\* one part.
C21_NestedCommaKept ==
    /\ op.name = "split_aggregate_parts_simple" /\ IsSome(ret)
    /\ Balanced(input)
    /\ TopLevelCommas(input) # {}
    /\ Commas(input) \ TopLevelCommas(input) # {}
    /\ Len(Unwrap(ret)) = 2
    /\ \E k \in 1..2 : Commas(Unwrap(ret)[k]) # {}

\* C30: while split_aggregate_parts_simple scans any text its brace-depth
\* and bracket-depth counters never become negative: an unmatched closer
\* leaves the counter at zero, so a comma after an unmatched closer at top
\* level is still a separator.
C30_DepthsNeverNegative ==
    (op.name = "split_aggregate_parts_simple" /\ IsSome(proc))
    => /\ Unwrap(proc).brace_depth >= 0
       /\ Unwrap(proc).bracket_depth >= 0
       /\ \A i \in Commas(input) :
            (/\ i < Unwrap(proc).i
             /\ i > 1
             /\ CharAt(input, i - 1) \in {"}", "]"}
             /\ \A j \in 1..(i - 1) : CharAt(input, j) \notin {"{", "["})
            => Unwrap(proc).start > i

\* A comma after an unmatched closing brace, scanned with the brace depth at
\* minus one and kept inside the one part that is returned.
C30_CommaAfterCloserKept ==
    /\ op.name = "split_aggregate_parts_simple"
    /\ input = "},a"
    /\ Unwrap(proc).brace_depth = -1
    /\ ret = Some(<<"},a">>)

(***************************************************************************)
(* Enum-value options, and where each parser panics.                       *)
(***************************************************************************)
\* The number a text of decimal digits stands for, None for any other text.
RECURSIVE DigitsValue(_, _)
DigitsValue(text, acc) ==
    IF text = "" THEN Some(acc)
    ELSE LetIn(find(Digits, CharAt(text, 1)), LAMBDA at :
            IF at = 0 THEN None
            ELSE DigitsValue(SubSeq(text, 2, Len(text)), acc * 10 + (at - 1)))

\* value.parse::<i32>(): an optional sign and at least one digit; None stands
\* for Err.  Texts of up to nine digits, which all fit an i32.
parse_i32(value) ==
    LetIn(IF starts_with(value, "-") \/ starts_with(value, "+")
          THEN SubSeq(value, 2, Len(value)) ELSE value,
          LAMBDA digits :
        IF digits = "" THEN None
        ELSE LetIn(DigitsValue(digits, 0), LAMBDA magnitude :
                IF magnitude = None THEN None
                ELSE IF starts_with(value, "-") THEN Some(0 - Unwrap(magnitude))
                     ELSE magnitude))

\* parse_int_option: `v as i32` keeps every value an i32 can hold.
parse_int_option(opt) ==
    IF IsSome(opt.positive_int_value) THEN Unwrap(opt.positive_int_value)
    ELSE IF IsSome(opt.negative_int_value) THEN Unwrap(opt.negative_int_value)
         ELSE 0

apply_enum_value_key(result, key, value) ==
    CASE key = "name" -> [result EXCEPT !.name = parse_quoted_string(value)]
      [] key = "string_value" -> [result EXCEPT !.string_value = parse_quoted_string(value)]
      [] key = "int_value" ->
            IF IsSome(parse_i32(value))
            THEN [result EXCEPT !.int_value = Unwrap(parse_i32(value))]
            ELSE result
      [] OTHER -> result

parse_aggregate_into_enum_value_options(result, aggregate) ==
    LetIn(split_aggregate_parts(aggregate), LAMBDA parts :
        FoldKeyValues(apply_enum_value_key, result, parts))

apply_enum_value_option(result, opt) ==
    IF IsSome(opt.aggregate_value)
    THEN parse_aggregate_into_enum_value_options(result, Unwrap(opt.aggregate_value))
    ELSE LET field_name == get_subfield_name(opt)
         IN  CASE field_name = Some("name") -> [result EXCEPT !.name = parse_string_option(opt)]
               [] field_name = Some("string_value") ->
                    [result EXCEPT !.string_value = parse_string_option(opt)]
               [] field_name = Some("int_value") ->
                    [result EXCEPT !.int_value = parse_int_option(opt)]
               [] OTHER -> result

parse_enum_value_options_from_uninterpreted(uninterpreted) ==
    IF Found(ENUM_VALUE_EXTENSION_NAME, uninterpreted)
    THEN Some(ApplyMatching(apply_enum_value_option, DefaultEnumValueOptions,
                            ENUM_VALUE_EXTENSION_NAME, uninterpreted))
    ELSE None

parse_enum_value_options_from_extension(opts) ==
    FromExtension(convert_to_enum_value_options, opts)

parse_enum_value_options(value) ==
    IF value.options = None THEN None
    ELSE LET opts == Unwrap(value.options)
             result == parse_enum_value_options_from_extension(opts)
         IN  IF IsSome(result) THEN result
             ELSE parse_enum_value_options_from_uninterpreted(opts.uninterpreted_option)

\* The keys of each aggregate whose arm calls parse_quoted_string.
QuotedKeys(extension_name) ==
    CASE extension_name = FIELD_EXTENSION_NAME ->
            {"column_name", "column_type", "default_value", "has_one", "has_many",
             "belongs_to", "belongs_to_from", "belongs_to_to", "has_many_via"}
      [] extension_name = ENUM_EXTENSION_NAME -> {"name", "db_type"}
      [] extension_name = ENUM_VALUE_EXTENSION_NAME -> {"name", "string_value"}
      [] extension_name = ONEOF_EXTENSION_NAME ->
            {"strategy", "column_prefix", "discriminator_column"}

\* parse_aggregate_into_{field,enum,enum_value,oneof}_options panics.
parse_aggregate_panics(extension_name, aggregate) ==
    PartsPanic(split_aggregate_parts(aggregate), QuotedKeys(extension_name))

\* parse_{field,enum,enum_value,oneof}_options panics: no extension, and a
\* matching uninterpreted aggregate whose application panics.
parse_options_panics(extension_name, desc) ==
    /\ desc.options # None
    /\ EncodedEmpty(Unwrap(desc.options)) \/ Unwrap(desc.options).ext = None
    /\ \E i \in 1..Len(Unwrap(desc.options).uninterpreted_option) :
         LET opt == Unwrap(desc.options).uninterpreted_option[i]
         IN  /\ is_extension_option(opt, extension_name)
             /\ IsSome(opt.aggregate_value)
             /\ parse_aggregate_panics(extension_name, Unwrap(opt.aggregate_value))

(***************************************************************************)
(* The parse_*_options functions on one descriptor.  A descriptor is a     *)
(* prost_types struct: its options record has no typed extension.  The     *)
(* aggregates are written entry by entry, each entry well-formed or not.   *)
(***************************************************************************)
Kinds == {"message", "field", "enum", "enum_value", "oneof"}

ExtensionNameOf(kind) ==
    CASE kind = "message" -> MODEL_EXTENSION_NAME
      [] kind = "field" -> FIELD_EXTENSION_NAME
      [] kind = "enum" -> ENUM_EXTENSION_NAME
      [] kind = "enum_value" -> ENUM_VALUE_EXTENSION_NAME
      [] kind = "oneof" -> ONEOF_EXTENSION_NAME

DefaultOf(kind) ==
    CASE kind = "message" -> DefaultMessageOptions
      [] kind = "field" -> DefaultFieldOptions
      [] kind = "enum" -> DefaultEnumOptions
      [] kind = "enum_value" -> DefaultEnumValueOptions
      [] kind = "oneof" -> DefaultOneofOptions

Entry(text, good) == [text |-> text, good |-> good]

\* The well-formed key:value pairs of each kind.
GoodEntries(kind) ==
    CASE kind = "message" -> {Entry("table_name: \"users\"", TRUE), Entry("skip: true", TRUE)}
      [] kind = "field" -> {Entry("column_name: 'uid'", TRUE), Entry("primary_key: true", TRUE)}
      [] kind = "enum" -> {Entry("db_type: \"string\"", TRUE), Entry("skip: true", TRUE)}
      [] kind = "enum_value" -> {Entry("string_value: \"a\"", TRUE), Entry("int_value: -7", TRUE)}
      [] kind = "oneof" -> {Entry("strategy: \"json\"", TRUE), Entry("column_prefix: p", TRUE)}

\* A key that takes a quoted string, with a lone quote character as value.
LoneQuoteEntry(kind) ==
    CASE kind = "message" -> Entry("table_name: \"", FALSE)
      [] kind = "field" -> Entry("column_name: '", FALSE)
      [] kind = "enum" -> Entry("name: \"", FALSE)
      [] kind = "enum_value" -> Entry("name: '", FALSE)
      [] kind = "oneof" -> Entry("strategy: \"", FALSE)

\* A key without a value, an unknown key, an unknown key with an unmatched
\* opener or closer, and the lone quote.
BadEntries(kind) ==
    { Entry("bogus", FALSE), Entry("colour: red", FALSE), Entry("extra: {", FALSE),
      Entry("extra: ]", FALSE), LoneQuoteEntry(kind) }

EntriesOf(kind) == GoodEntries(kind) \cup BadEntries(kind)

\* The entry lists of the options of one descriptor: one aggregate of one or
\* two entries, or two aggregates of one entry each.
EntryLists(kind) ==
    { <<<<e>>>> : e \in EntriesOf(kind) }
    \cup { <<<<e, f>>>> : e \in EntriesOf(kind), f \in EntriesOf(kind) }
    \cup { <<<<e>>, <<f>>>> : e \in EntriesOf(kind), f \in EntriesOf(kind) }

RECURSIVE AggregateText(_)
AggregateText(entries) ==
    IF Len(entries) = 1 THEN entries[1].text
    ELSE entries[1].text \o ", " \o AggregateText(Tail(entries))

WrittenOptions(kind, lists) ==
    Options(None, [i \in 1..Len(lists) |->
                     Aggregate(ExtensionNameOf(kind), TRUE, AggregateText(lists[i]))])

\* Options no aggregate was written for: none, an empty record, options of
\* another extension, a name that is no extension, an option without name,
\* single settings, and an option of the kind after one of another.
OtherOptions(kind) ==
    { None,
      Options(None, <<>>),
      Options(None, <<Aggregate("seaorm.column", TRUE, "primary_key: true, auto_increment: true")>>),
      Options(None, <<Aggregate("seaorm.column", TRUE, "unique: true")>>),
      Options(None, <<Aggregate(ExtensionNameOf(kind), TRUE,
                                "primary_key: true, auto_increment: true")>>),
      Options(None, <<Aggregate(ExtensionNameOf(kind), TRUE, "unique: true")>>),
      Options(None, <<Aggregate("other.option", TRUE, "skip: true")>>),
      Options(None, <<Aggregate(ExtensionNameOf(kind), FALSE, "skip: true")>>),
      Options(None, <<[DefaultUninterpretedOption EXCEPT !.aggregate_value = Some("skip: true")]>>),
      Options(None, <<SubField(ExtensionNameOf(kind), "skip", "true")>>),
      Options(None, <<SubField(ExtensionNameOf(kind), "primary_key", "true")>>),
      Options(None, <<SubField(ExtensionNameOf(kind), "name", "n")>>),
      Options(None, <<SubField(ExtensionNameOf(kind), "strategy", "tagged")>>),
      Options(None, <<SubField("other.option", "skip", "true")>>),
      Options(None, <<[DefaultUninterpretedOption EXCEPT
                          !.name = <<NamePart(ExtensionNameOf(kind), TRUE)>>]>>),
      Options(None, <<Aggregate("other.option", TRUE, "skip: true"),
                      SubField(ExtensionNameOf(kind), "skip", "true")>>) }

\* The sub-records of a relation list: the text between the braces and the
\* relation record it stands for, None for a sub-record without any pair.
SubRecord(text, record) == [text |-> text, record |-> record]

ShortSubRecords ==
    { SubRecord("name: \"p\"", Some([DefaultRelationDef EXCEPT !.name = "p"])),
      SubRecord("type: has_one", Some([DefaultRelationDef EXCEPT !.type = "HasOne"])),
      SubRecord("related: 'P'", Some([DefaultRelationDef EXCEPT !.related = "P"])),
      SubRecord("through: \"J\"", Some([DefaultRelationDef EXCEPT !.through = "J"])),
      SubRecord("", None) }

LongSubRecords ==
    { SubRecord("name: \"p\", type: HasMany, related: \"P\"",
                Some([DefaultRelationDef EXCEPT !.name = "p", !.type = "HasMany",
                                                !.related = "P"])),
      SubRecord("foreign_key: \"k\", references: \"r\"",
                Some([DefaultRelationDef EXCEPT !.foreign_key = "k", !.references = "r"])),
      SubRecord("type: RELATION_TYPE_MANY_TO_MANY, x: 1",
                Some([DefaultRelationDef EXCEPT !.type = "ManyToMany"])) }

\* A relation list as written: its sub-records, whether it is written as a
\* bracketed array or as a single brace-delimited record, and whether
\* table_name stands before it and skip after it.
Listed(subs, array, table_name, skip) ==
    [subs |-> subs, array |-> array, table_name |-> table_name, skip |-> skip]

RelationListings ==
    { Listed(<<a>>, array, t, k) :
        a \in ShortSubRecords, array \in BOOLEAN, t \in BOOLEAN, k \in BOOLEAN }
    \cup { Listed(<<a, b>>, TRUE, t, k) :
             a \in ShortSubRecords, b \in ShortSubRecords, t \in BOOLEAN, k \in BOOLEAN }
    \cup { Listed(<<a>>, array, around[1], around[2]) :
             a \in LongSubRecords, array \in BOOLEAN,
             around \in {<<FALSE, FALSE>>, <<TRUE, FALSE>>, <<FALSE, TRUE>>} }

RECURSIVE BracedList(_)
BracedList(subs) ==
    IF Len(subs) = 1 THEN "{" \o subs[1].text \o "}"
    ELSE "{" \o subs[1].text \o "}, " \o BracedList(Tail(subs))

ListingText(listing) ==
    (IF listing.table_name THEN "table_name: \"u\", " ELSE "")
    \o "relations: "
    \o (IF listing.array THEN "[" \o BracedList(listing.subs) \o "]"
        ELSE BracedList(listing.subs))
    \o (IF listing.skip THEN ", skip: true" ELSE "")

Described(kind, written, entries, listing, options) ==
    [kind |-> kind, written |-> written, entries |-> entries, listing |-> listing,
     desc |-> [name |-> "d", options |-> options]]

ParseInputs ==
    UNION { { Described(k, TRUE, l, None, WrittenOptions(k, l)) : l \in EntryLists(k) } :
              k \in Kinds }
    \cup UNION { { Described(k, FALSE, <<>>, None, o) : o \in OtherOptions(k) } : k \in Kinds }
    \cup { Described("message", FALSE, <<>>, Some(l),
                     Options(None, <<Aggregate(MODEL_EXTENSION_NAME, TRUE, ListingText(l))>>)) :
             l \in RelationListings }

InitParse ==
    /\ cache = OptionsCacheDefault
    /\ poisoned = FALSE
    /\ calls = 0
    /\ lastBytes = None
    /\ lastResult = None
    /\ repeat = FALSE
    /\ op = NoOp
    /\ ret = None
    /\ input \in ParseInputs
    /\ proc = None

\* A parse_*_options call on the descriptor at hand: it panics, or returns.
ParseCall(name, outcome) ==
    /\ op' = [name |-> name, args |-> <<>>]
    /\ ret' = Some(outcome)
    /\ UNCHANGED <<cache, poisoned, calls, lastBytes, lastResult, repeat, input, proc>>

Panicked == [panicked |-> TRUE, result |-> None]

Returned(result) == [panicked |-> FALSE, result |-> result]

CallParseMessageOptions ==
    /\ input.kind = "message"
    /\ \E r \in {IF parse_message_options_panics(input.desc) THEN Panicked
                 ELSE Returned(parse_message_options(input.desc))} :
           ParseCall("parse_message_options", r)

CallParseFieldOptions ==
    /\ input.kind = "field"
    /\ \E r \in {IF parse_options_panics(FIELD_EXTENSION_NAME, input.desc) THEN Panicked
                 ELSE Returned(parse_field_options(input.desc))} :
           ParseCall("parse_field_options", r)

CallParseEnumOptions ==
    /\ input.kind = "enum"
    /\ \E r \in {IF parse_options_panics(ENUM_EXTENSION_NAME, input.desc) THEN Panicked
                 ELSE Returned(parse_enum_options(input.desc))} :
           ParseCall("parse_enum_options", r)

CallParseEnumValueOptions ==
    /\ input.kind = "enum_value"
    /\ \E r \in {IF parse_options_panics(ENUM_VALUE_EXTENSION_NAME, input.desc) THEN Panicked
                 ELSE Returned(parse_enum_value_options(input.desc))} :
           ParseCall("parse_enum_value_options", r)

CallParseOneofOptions ==
    /\ input.kind = "oneof"
    /\ \E r \in {IF parse_options_panics(ONEOF_EXTENSION_NAME, input.desc) THEN Panicked
                 ELSE Returned(parse_oneof_options(input.desc))} :
           ParseCall("parse_oneof_options", r)

NextParse ==
    \/ CallParseMessageOptions
    \/ CallParseFieldOptions
    \/ CallParseEnumOptions
    \/ CallParseEnumValueOptions
    \/ CallParseOneofOptions

SpecParse == InitParse /\ [][NextParse]_vars

-----------------------------------------------------------------------------
\* Malformed aggregate text.

\* What a written entry asks for: the setting of a well-formed pair, nothing
\* for an entry that is not one.
Meant(options, text) ==
    CASE text = "table_name: \"users\"" -> [options EXCEPT !.table_name = "users"]
      [] text = "skip: true" -> [options EXCEPT !.skip = TRUE]
      [] text = "column_name: 'uid'" -> [options EXCEPT !.column_name = "uid"]
      [] text = "primary_key: true" -> [options EXCEPT !.primary_key = TRUE]
      [] text = "db_type: \"string\"" -> [options EXCEPT !.db_type = "string"]
      [] text = "string_value: \"a\"" -> [options EXCEPT !.string_value = "a"]
      [] text = "int_value: -7" -> [options EXCEPT !.int_value = -7]
      [] text = "strategy: \"json\"" -> [options EXCEPT !.strategy = "json"]
      [] text = "column_prefix: p" -> [options EXCEPT !.column_prefix = "p"]
      [] OTHER -> options

RECURSIVE MeantByEntries(_, _)
MeantByEntries(options, entries) ==
    IF entries = <<>> THEN options
    ELSE MeantByEntries(Meant(options, Head(entries).text), Tail(entries))

RECURSIVE MeantByLists(_, _)
MeantByLists(options, lists) ==
    IF lists = <<>> THEN options
    ELSE MeantByLists(MeantByEntries(options, Head(lists)), Tail(lists))

ParseCalled == IsSome(ret)

WrittenCalled == ParseCalled /\ input.written

HasEntry(lists, texts) ==
    \E i \in 1..Len(lists) : \E j \in 1..Len(lists[i]) : lists[i][j].text \in texts

HasGoodEntry(lists) ==
    \E i \in 1..Len(lists) : \E j \in 1..Len(lists[i]) : lists[i][j].good

HasBadEntry(lists) ==
    \E i \in 1..Len(lists) : \E j \in 1..Len(lists[i]) : ~lists[i][j].good

LoneQuoteTexts == {LoneQuoteEntry(k).text : k \in Kinds}

UnmatchedTexts == {"extra: {", "extra: ]"}

\* C22: malformed aggregate text is a soft failure for every kind of option:
\* the parse of a descriptor whose aggregates hold malformed entries returns
\* without aborting, and its result is what the well-formed pairs of all its
\* options ask for, in order, the malformed entries being ignored.
C22_MalformedIsSoftFailure ==
    WrittenCalled =>
        /\ ~Unwrap(ret).panicked
        /\ Unwrap(ret).result = Some(MeantByLists(DefaultOf(input.kind), input.entries))

\* A parse that aborted on a lone quote although a well-formed pair was
\* written for the same descriptor.
C22_LoneQuoteAborts ==
    /\ WrittenCalled
    /\ HasEntry(input.entries, LoneQuoteTexts)
    /\ HasGoodEntry(input.entries)
    /\ Unwrap(ret).panicked

\* The statement holds for every malformed entry but the lone quote, and but
\* the unmatched opener or closer in a seaorm.model aggregate (see C30).
C22_HoldsForOtherMalformations ==
    ( /\ WrittenCalled
      /\ ~HasEntry(input.entries, LoneQuoteTexts)
      /\ ~(input.kind = "message" /\ HasEntry(input.entries, UnmatchedTexts)) )
    => ( /\ ~Unwrap(ret).panicked
         /\ Unwrap(ret).result = Some(MeantByLists(DefaultOf(input.kind), input.entries)) )

\* A malformed entry was ignored and the well-formed pair after it applied.
C22_MalformedIgnored ==
    /\ WrittenCalled
    /\ HasBadEntry(input.entries)
    /\ HasGoodEntry(input.entries)
    /\ ~Unwrap(ret).panicked
    /\ Unwrap(ret).result = Some(MeantByLists(DefaultOf(input.kind), input.entries))
    /\ Unwrap(ret).result # Some(DefaultOf(input.kind))

\* An unmatched opener in a seaorm.model aggregate takes the pairs after it
\* along.
C22_PairsAfterOpenerLost ==
    /\ WrittenCalled
    /\ input.kind = "message"
    /\ ~HasEntry(input.entries, LoneQuoteTexts)
    /\ ~Unwrap(ret).panicked
    /\ Unwrap(ret).result # Some(MeantByLists(DefaultOf(input.kind), input.entries))

-----------------------------------------------------------------------------
\* Relation lists on the fallback path.

ListedCalled == ParseCalled /\ IsSome(input.listing)

\* One record per sub-record of the list, in source order, with the fields
\* its keys give; a sub-record without keys gives a record of defaults.
RecordsOf(subs) ==
    [i \in 1..Len(subs) |->
        IF IsSome(subs[i].record) THEN Unwrap(subs[i].record) ELSE DefaultRelationDef]

RECURSIVE RecordsOfKeyed(_)
RecordsOfKeyed(subs) ==
    IF subs = <<>> THEN <<>>
    ELSE (IF IsSome(Head(subs).record) THEN <<Unwrap(Head(subs).record)>> ELSE <<>>)
         \o RecordsOfKeyed(Tail(subs))

MeantByListing(listing, relations) ==
    [DefaultMessageOptions EXCEPT
        !.relations = relations,
        !.table_name = IF listing.table_name THEN "u" ELSE "",
        !.skip = listing.skip]

AllKeyed(subs) == \A i \in 1..Len(subs) : IsSome(subs[i].record)

C23_EmptySubRecordDropped ==
    /\ ListedCalled
    /\ ~AllKeyed(Unwrap(input.listing).subs)
    /\ ~Unwrap(ret).panicked
    /\ IsSome(Unwrap(ret).result)
    /\ Len(Unwrap(Unwrap(ret).result).relations) < Len(Unwrap(input.listing).subs)

-----------------------------------------------------------------------------
\* Field options under the name seaorm.column.

ColumnFlagTexts == {"primary_key: true, auto_increment: true", "unique: true"}

FlagsOf(text) ==
    IF text = "unique: true" THEN [DefaultFieldOptions EXCEPT !.unique = TRUE]
    ELSE [DefaultFieldOptions EXCEPT !.primary_key = TRUE, !.auto_increment = TRUE]

\* The field at hand carries one option of the given name whose aggregate is
\* one of the two flag texts, and parse_field_options was called on it.
FlagsCalledUnder(name) ==
    /\ ParseCalled
    /\ input.kind = "field"
    /\ \E text \in ColumnFlagTexts :
           input.desc.options = Options(None, <<Aggregate(name, TRUE, text)>>)

FlagsSet ==
    /\ ~Unwrap(ret).panicked
    /\ \E text \in ColumnFlagTexts :
           /\ input.desc.options[1].uninterpreted_option[1].aggregate_value = Some(text)
           /\ Unwrap(ret).result = Some(FlagsOf(text))

\* C24: a field whose uninterpreted option is named seaorm.column, with the
\* aggregate `primary_key: true, auto_increment: true` or `unique: true`, is
\* parsed into field options with those flags set.
C24_ColumnOptionRecognised == FlagsCalledUnder("seaorm.column") => FlagsSet

\* The option named seaorm.column went unseen: the field has no options.
C24_ColumnOptionUnseen ==
    /\ FlagsCalledUnder("seaorm.column")
    /\ Unwrap(ret) = Returned(None)

\* Under the name the code compares with, seaorm.field, the same aggregates
\* set the flags.
C24_HoldsUnderFieldName == FlagsCalledUnder(FIELD_EXTENSION_NAME) => FlagsSet

C24_FieldNameRecognised == FlagsCalledUnder(FIELD_EXTENSION_NAME) /\ FlagsSet

-----------------------------------------------------------------------------
\* The keys of the cache.

CarriesExtension(desc) == IsSome(desc.options) /\ IsSome(Unwrap(desc.options).ext)

\* An annotated descriptor of a request: the map it belongs to, the key the
\* statement gives it, the extension value it carries, and its position in
\* the request as the list of steps that lead to it.
Stored(which, key, desc, at) ==
    [which |-> which, key |-> key, options |-> Unwrap(Unwrap(desc.options).ext), at |-> at]

Qualified(prefix, name) == IF prefix = "" THEN name ELSE prefix \o "." \o name

AnnotatedEnum(file_name, prefix, enum_desc, at) ==
    IF CarriesExtension(enum_desc)
    THEN {Stored("enum_options", <<file_name, Qualified(prefix, enum_desc.name)>>,
                 enum_desc, at)}
    ELSE {}

RECURSIVE AnnotatedBelow(_, _, _, _)
AnnotatedBelow(file_name, prefix, msg, at) ==
    LET qualified == Qualified(prefix, msg.name)
    IN  (IF CarriesExtension(msg)
         THEN {Stored("message_options", <<file_name, qualified>>, msg, at)}
         ELSE {})
        \cup { Stored("field_options", <<file_name, qualified, msg.field[i].number>>,
                      msg.field[i], Append(at, <<"field", i>>)) :
                 i \in {j \in 1..Len(msg.field) : CarriesExtension(msg.field[j])} }
        \cup { Stored("oneof_options", <<file_name, qualified, i - 1>>,
                      msg.oneof_decl[i], Append(at, <<"oneof_decl", i>>)) :
                 i \in {j \in 1..Len(msg.oneof_decl) : CarriesExtension(msg.oneof_decl[j])} }
        \cup UNION { AnnotatedBelow(file_name, qualified, msg.nested_type[i],
                                    Append(at, <<"nested_type", i>>)) :
                       i \in 1..Len(msg.nested_type) }
        \cup UNION { AnnotatedEnum(file_name, qualified, msg.enum_type[i],
                                   Append(at, <<"enum_type", i>>)) :
                       i \in 1..Len(msg.enum_type) }

AnnotatedInFile(file, at) ==
    UNION { AnnotatedBelow(file.name, "", file.message_type[i],
                           Append(at, <<"message_type", i>>)) :
              i \in 1..Len(file.message_type) }
    \cup UNION { AnnotatedEnum(file.name, "", file.enum_type[i],
                               Append(at, <<"enum_type", i>>)) :
                   i \in 1..Len(file.enum_type) }

AnnotatedInRequest(bytes) ==
    UNION { AnnotatedInFile(bytes.proto_file[i], <<i>>) : i \in 1..Len(bytes.proto_file) }

Preprocessed == LastDecodable /\ op.name = "generate_from_bytes"

\* C25: after preprocessing, every annotated message and enum of the
\* request, at any depth, is stored under (file path, qualified name), and
\* every annotated field and oneof under (file path, qualified name of its
\* message, field number or oneof index); no two descriptors of the request
\* share a key, so each key holds the options of its own descriptor.
C25_StoredUnderQualifiedKey ==
    Preprocessed =>
        LET annotated == AnnotatedInRequest(Unwrap(lastBytes))
        IN  /\ \A d \in annotated :
                   /\ d.key \in DOMAIN cache[d.which]
                   /\ cache[d.which][d.key] = d.options
            /\ \A d \in annotated : \A e \in annotated :
                   (d.which = e.which /\ d.key = e.key) => d.at = e.at

\* A request with an enum of the same name at the top level and inside a
\* message, a nested message, a field and a oneof, each stored under its key.
C25_NestedAndTopLevelStored ==
    /\ Preprocessed
    /\ <<FileName, "Kind">> \in DOMAIN cache.enum_options
    /\ <<FileName, "BlogPost.Kind">> \in DOMAIN cache.enum_options
    /\ <<FileName, "BlogPost.Inner">> \in DOMAIN cache.message_options
    /\ <<FileName, "BlogPost", 1>> \in DOMAIN cache.field_options
    /\ <<FileName, "BlogPost", 0>> \in DOMAIN cache.oneof_options
    /\ Cardinality(AnnotatedInRequest(Unwrap(lastBytes))) >= 6

-----------------------------------------------------------------------------
\* Legacy hints and relation records.

HintTargets == {"", "user", "UserProfile", "Type"}

HintForeignKeys == {"", "owner_id", "author_id"}

HintReferences == {"", "uuid", "key"}

HintJunctions == {"", "post_tags", "UserPost"}

\* A field hint and the record that says the same: the form of the hint,
\* its field options, and the record of the corresponding type.
HintPair(form, field_options, rel_def) ==
    [form |-> form, field_name |-> "owner", field_options |-> field_options,
     rel_def |-> [rel_def EXCEPT !.name = "owner"]]

HintPairs ==
    { HintPair("has_one", [DefaultFieldOptions EXCEPT !.has_one = t],
               Relation("HasOne", t, "", "", "")) : t \in HintTargets }
    \cup { HintPair("has_many",
                    [DefaultFieldOptions EXCEPT !.has_many = t, !.has_many_via = v],
                    Relation("HasMany", t, "", "", v)) :
             t \in HintTargets, v \in HintJunctions }
    \cup { HintPair("belongs_to",
                    [DefaultFieldOptions EXCEPT !.belongs_to = t, !.belongs_to_from = f,
                                                !.belongs_to_to = c],
                    Relation("BelongsTo", t, f, c, "")) :
             t \in HintTargets, f \in HintForeignKeys, c \in HintReferences }

InitHint ==
    /\ cache = OptionsCacheDefault
    /\ poisoned = FALSE
    /\ calls = 0
    /\ lastBytes = None
    /\ lastResult = None
    /\ repeat = FALSE
    /\ op = NoOp
    /\ ret = None
    /\ input \in HintPairs
    /\ proc = None

\* generate_relation on the hint of the pair.
HintGenerateRelation ==
    /\ op = NoOp
    /\ \E r \in {generate_relation(input.field_name, input.field_options)} :
           /\ op' = [name |-> "generate_relation", args |-> <<>>]
           /\ ret' = Some(r)
    /\ UNCHANGED <<cache, poisoned, calls, lastBytes, lastResult, repeat, input, proc>>

\* generate_relation_from_def on the record of the pair; lastResult keeps
\* what generate_relation returned.
RecordGenerateRelationFromDef ==
    /\ op.name = "generate_relation"
    /\ \E r \in {generate_relation_from_def(input.rel_def)} :
           /\ op' = [name |-> "generate_relation_from_def", args |-> <<>>]
           /\ lastResult' = ret
           /\ ret' = Some(r)
    /\ UNCHANGED <<cache, poisoned, calls, lastBytes, repeat, input, proc>>

NextHint ==
    \/ HintGenerateRelation
    \/ RecordGenerateRelationFromDef

SpecHint == InitHint /\ [][NextHint]_vars

BothGenerated == op.name = "generate_relation_from_def" /\ IsSome(lastResult)

\* The five fields the statement compares, of a relation that was generated.
Compared(generated) ==
    IF generated = None THEN None
    ELSE Some([relation_type |-> Unwrap(generated).relation_type,
               target_entity |-> Unwrap(generated).target_entity,
               from_column |-> Unwrap(generated).from_column,
               to_column |-> Unwrap(generated).to_column,
               via_table |-> Unwrap(generated).via_table])

\* C26: generate_relation on a field hint (has_one = T; has_many = T with
\* has_many_via = V; belongs_to = T with belongs_to_from = F and
\* belongs_to_to = C) yields the same kind, target entity path, from column,
\* to column and via table as generate_relation_from_def on the record of
\* the corresponding type with related = T, foreign_key = F, references = C,
\* through = V.
C26_HintEqualsRecord ==
    BothGenerated => Compared(Unwrap(lastResult)) = Compared(Unwrap(ret))

\* Both functions generated a belongs-to relation with default columns, and
\* a has-many relation through a junction.
C26_BelongsToDefaultsGenerated ==
    /\ BothGenerated
    /\ input.form = "belongs_to"
    /\ input.field_options.belongs_to_from = ""
    /\ IsSome(Unwrap(ret))
    /\ IsSome(Unwrap(lastResult))
    /\ Unwrap(Unwrap(lastResult)).from_column = Some("user_profile_id")
    /\ Unwrap(Unwrap(ret)).to_column = Some("id")

C26_HasManyViaGenerated ==
    /\ BothGenerated
    /\ input.form = "has_many"
    /\ IsSome(Unwrap(ret))
    /\ Unwrap(Unwrap(lastResult)).via_table = Some("post_tags")
    /\ Unwrap(Unwrap(ret)).via_table = Some("post_tags")

-----------------------------------------------------------------------------
\* Some or None.

\* At least one uninterpreted option of the descriptor has a first name part
\* with is_extension set and the name of the kind's extension.
NamedForKind(desc, kind) ==
    /\ IsSome(desc.options)
    /\ \E i \in 1..Len(Unwrap(desc.options).uninterpreted_option) :
           LET name == Unwrap(desc.options).uninterpreted_option[i].name
           IN  /\ name # <<>>
               /\ name[1].is_extension
               /\ name[1].name_part = ExtensionNameOf(kind)

SomeExactlyWhenNamed ==
    /\ input.desc.options = None => Unwrap(ret).result = None
    /\ IsSome(Unwrap(ret).result) <=> NamedForKind(input.desc, input.kind)

\* C27: each of the five parse_*_options functions returns None for a
\* descriptor without options record and, the typed extension being absent,
\* Some exactly when at least one uninterpreted option has a first name part
\* with is_extension set and the name of that kind's extension, None in
\* every other case.
C27_SomeExactlyWhenNamed ==
    ParseCalled => (~Unwrap(ret).panicked /\ SomeExactlyWhenNamed)

\* A call on a descriptor with a named option that neither returned Some nor
\* None: it aborted.
C27_NamedOptionNoResult ==
    /\ ParseCalled
    /\ NamedForKind(input.desc, input.kind)
    /\ Unwrap(ret).panicked
    /\ Unwrap(ret).result = None

\* Whenever the call returns, the statement holds.
C27_HoldsWhenReturned ==
    (ParseCalled /\ ~Unwrap(ret).panicked) => SomeExactlyWhenNamed

\* None for options that hold only an option of another name, of a name that
\* is no extension, or without name; Some for a single setting.
C27_NoneForOtherNames ==
    /\ ParseCalled
    /\ IsSome(input.desc.options)
    /\ Unwrap(input.desc.options).uninterpreted_option # <<>>
    /\ ~NamedForKind(input.desc, input.kind)
    /\ Unwrap(ret) = Returned(None)

C27_SomeForSingleSetting ==
    /\ ParseCalled
    /\ NamedForKind(input.desc, input.kind)
    /\ Len(Unwrap(input.desc.options).uninterpreted_option[1].name) = 2
    /\ ~Unwrap(ret).panicked
    /\ IsSome(Unwrap(ret).result)

-----------------------------------------------------------------------------
(***************************************************************************)
(* Callers on several threads.  A preprocessing pass decodes its request,  *)
(* takes the write lock of OPTIONS_CACHE, makes its inserts one by one and *)
(* releases the lock when it returns; a lookup takes the read lock, reads  *)
(* its key and releases.  proc holds the lock, each thread's position and  *)
(* the inserts each pass has still to make.                                *)
(***************************************************************************)
RECURSIVE ConcatAll(_)
ConcatAll(seqs) == IF seqs = <<>> THEN <<>> ELSE Head(seqs) \o ConcatAll(Tail(seqs))

\* The insert of one descriptor, as a list: empty without the extension.
InsertOf(which, key, desc, converted) ==
    IF ExtensionOf(desc) = None \/ converted = None THEN <<>>
    ELSE <<[which |-> which, key |-> key, value |-> Unwrap(converted)]>>

\* The inserts of extract_enum_options_nested, in the order it makes them.
inserts_of_enum(file_name, enum_msg, parent_prefix) ==
    LET full_name == full_name_of(parent_prefix, enum_msg.name)
    IN  InsertOf("enum_options", <<file_name, full_name>>, enum_msg,
                 IF ExtensionOf(enum_msg) = None THEN None
                 ELSE convert_to_enum_options(Unwrap(ExtensionOf(enum_msg))))
        \o ConcatAll([i \in 1..Len(enum_msg.value) |->
              InsertOf("enum_value_options",
                       <<file_name, full_name, enum_msg.value[i].number>>,
                       enum_msg.value[i],
                       IF ExtensionOf(enum_msg.value[i]) = None THEN None
                       ELSE convert_to_enum_value_options(
                                Unwrap(ExtensionOf(enum_msg.value[i]))))])

\* The inserts of extract_message_options, in the order it makes them.
RECURSIVE inserts_of_message(_, _, _)
inserts_of_message(file_name, msg, parent_prefix) ==
    LET full_name == full_name_of(parent_prefix, msg.name)
    IN  InsertOf("message_options", <<file_name, full_name>>, msg,
                 IF ExtensionOf(msg) = None THEN None
                 ELSE convert_to_message_options(Unwrap(ExtensionOf(msg))))
        \o ConcatAll([i \in 1..Len(msg.field) |->
              InsertOf("field_options", <<file_name, full_name, msg.field[i].number>>,
                       msg.field[i],
                       IF ExtensionOf(msg.field[i]) = None THEN None
                       ELSE convert_to_field_options(Unwrap(ExtensionOf(msg.field[i]))))])
        \o ConcatAll([i \in 1..Len(msg.oneof_decl) |->
              InsertOf("oneof_options", <<file_name, full_name, i - 1>>,
                       msg.oneof_decl[i],
                       IF ExtensionOf(msg.oneof_decl[i]) = None THEN None
                       ELSE convert_to_oneof_options(
                                Unwrap(ExtensionOf(msg.oneof_decl[i]))))])
        \o ConcatAll([i \in 1..Len(msg.nested_type) |->
              inserts_of_message(file_name, msg.nested_type[i], full_name)])
        \o ConcatAll([i \in 1..Len(msg.enum_type) |->
              inserts_of_enum(file_name, msg.enum_type[i], full_name)])

inserts_of_file(file) ==
    ConcatAll([i \in 1..Len(file.message_type) |->
                  inserts_of_message(file.name, file.message_type[i], "")])
    \o ConcatAll([i \in 1..Len(file.enum_type) |->
                     inserts_of_enum(file.name, file.enum_type[i], "")])

inserts_of_request(bytes) ==
    ConcatAll([i \in 1..Len(bytes.proto_file) |-> inserts_of_file(bytes.proto_file[i])])

RECURSIVE ApplyInserts(_, _)
ApplyInserts(c, inserts) ==
    IF inserts = <<>> THEN c
    ELSE ApplyInserts([c EXCEPT ![Head(inserts).which] =
                            Insert(@, Head(inserts).key, Head(inserts).value)],
                      Tail(inserts))

\* The threads: two preprocessing passes and one lookup.
Passes == {"pass1", "pass2"}

Readers == {"lookup"}

\* A request with one annotated message, one with annotated descriptors of
\* every kind, and bytes that do not decode.
PassRequests ==
    { [decodable |-> FALSE, file_to_generate |-> <<>>, proto_file |-> <<>>],
      [decodable |-> TRUE, file_to_generate |-> <<FileName>>,
       proto_file |-> <<File(<<Message("User",
                                 Options(Some([DefaultMessageOptions EXCEPT
                                                 !.table_name = "users"]), <<>>),
                                 <<>>, <<>>, <<>>, <<>>)>>, <<KindEnum>>)>>],
      [decodable |-> TRUE, file_to_generate |-> <<>>,
       proto_file |-> <<File(<<BlogPost>>, <<>>)>>] }

LookupKeys == {<<FileName, "User">>, <<FileName, "BlogPost.Inner">>}

\* RwLock::write succeeds in taking the lock: no writer and no reader holds it.
\* A variant that lets a writer in beside readers.
WriteLockBesideReaders(lock) == lock.writer = None

write_lock_free(lock) == lock.writer = None /\ lock.readers = {}

\* RwLock::read succeeds in taking the lock: no writer holds it.
read_lock_free(lock) == lock.writer = None

InitConcurrent ==
    /\ cache = OptionsCacheDefault
    /\ poisoned = FALSE
    /\ calls = 0
    /\ lastBytes = None
    /\ lastResult = None
    /\ repeat = FALSE
    /\ op = NoOp
    /\ ret = None
    /\ input \in [Passes -> PassRequests] \X LookupKeys
    /\ proc = Some([lock |-> [writer |-> None, readers |-> {}],
                    pc |-> [t \in Passes \cup Readers |-> "called"],
                    pending |-> [t \in Passes |-> <<>>],
                    result |-> [t \in Passes |-> None]])

Threads == Unwrap(proc)

ThreadStep(name, t, next) ==
    /\ op' = [name |-> name, args |-> <<t>>]
    /\ proc' = Some(next)
    /\ UNCHANGED <<poisoned, calls, lastBytes, lastResult, repeat, input>>

\* A faulty decode: the error returns with the write lock taken and kept.
DecodeUnderLock(threads, t, bytes) ==
    IF bytes.decodable
    THEN [threads EXCEPT !.pc[t] = "decoded", !.pending[t] = inserts_of_request(bytes)]
    ELSE [threads EXCEPT !.pc[t] = "returned", !.lock.writer = Some(t),
                         !.result[t] = Some("Err: Failed to decode CodeGeneratorRequest")]

\* DynamicMessage::decode(...).map_err(...)?: an error returns at once,
\* before the lock is asked for.
decode_request(threads, t, bytes) ==
    IF bytes.decodable
    THEN [threads EXCEPT !.pc[t] = "decoded", !.pending[t] = inserts_of_request(bytes)]
    ELSE [threads EXCEPT !.pc[t] = "returned",
                         !.result[t] = Some("Err: Failed to decode CodeGeneratorRequest")]

PassDecode ==
    \E t \in Passes :
        /\ Threads.pc[t] = "called"
        /\ ThreadStep("decode", t, decode_request(Threads, t, input[1][t]))
        /\ UNCHANGED <<cache, ret>>

\* OPTIONS_CACHE.write()
PassLock ==
    \E t \in Passes :
        /\ Threads.pc[t] = "decoded"
        /\ write_lock_free(Threads.lock)
        /\ ThreadStep("write", t,
               [Threads EXCEPT !.pc[t] = "locked", !.lock.writer = Some(t)])
        /\ UNCHANGED <<cache, ret>>

\* One insert of the pass.
PassInsert ==
    \E t \in Passes :
        /\ Threads.pc[t] = "locked"
        /\ Threads.pending[t] # <<>>
        /\ cache' = ApplyInserts(cache, <<Head(Threads.pending[t])>>)
        /\ ThreadStep("insert", t, [Threads EXCEPT !.pending[t] = Tail(@)])
        /\ UNCHANGED ret

\* Ok(()): the guard is dropped and the lock released.
PassReturn ==
    \E t \in Passes :
        /\ Threads.pc[t] = "locked"
        /\ Threads.pending[t] = <<>>
        /\ ThreadStep("return", t,
               [Threads EXCEPT !.pc[t] = "returned", !.lock.writer = None,
                               !.result[t] = Some("Ok")])
        /\ UNCHANGED <<cache, ret>>

\* OPTIONS_CACHE.read()
LookupLock ==
    \E t \in Readers :
        /\ Threads.pc[t] = "called"
        /\ read_lock_free(Threads.lock)
        /\ ThreadStep("read", t,
               [Threads EXCEPT !.pc[t] = "reading", !.lock.readers = @ \cup {t}])
        /\ UNCHANGED <<cache, ret>>

\* cache.message_options.get(&key).cloned(), and the guard is dropped.
LookupGet ==
    \E t \in Readers :
        /\ Threads.pc[t] = "reading"
        /\ ret' = Some(get_cached_message_options(cache, poisoned,
                                                  input[2][1], input[2][2]))
        /\ ThreadStep("get", t,
               [Threads EXCEPT !.pc[t] = "returned", !.lock.readers = @ \ {t}])
        /\ UNCHANGED cache

NextConcurrent ==
    \/ PassDecode
    \/ PassLock
    \/ PassInsert
    \/ PassReturn
    \/ LookupLock
    \/ LookupGet

SpecConcurrent == InitConcurrent /\ [][NextConcurrent]_vars

\* The inserts, applied in order, are the cache preprocess_request_bytes
\* leaves.
InsertsArePreprocess ==
    \A bytes \in PassRequests :
        bytes.decodable =>
            ApplyInserts(OptionsCacheDefault, inserts_of_request(bytes))
                = preprocess_request_bytes(OptionsCacheDefault, FALSE, bytes).cache

\* A pass that has made some of its inserts and not all.
MidPass(t) ==
    /\ Threads.pc[t] = "locked"
    /\ Threads.pending[t] # <<>>
    /\ Threads.pending[t] # inserts_of_request(input[1][t])

\* A pass between its first insert and its return.
Inserting(t) ==
    /\ Threads.pc[t] = "locked"
    /\ Threads.pending[t] # inserts_of_request(input[1][t])

\* C28: preprocessing is atomic with respect to readers.  A pass holds the
\* write lock from before its first insert until it returns; while a lookup
\* holds the read lock every pass has made none or all of its inserts; and
\* no two passes are between first insert and return at once.
C28_PassAtomicForReaders ==
    /\ \A t \in Passes :
           (Threads.pc[t] \in {"called", "decoded"}
                => Threads.lock.writer # Some(t))
           /\ (Inserting(t) => Threads.lock.writer = Some(t))
           /\ (Threads.pc[t] = "decoded"
                => Threads.pending[t] = inserts_of_request(input[1][t]))
    /\ \A r \in Readers :
           Threads.pc[r] = "reading" => \A t \in Passes : ~MidPass(t) /\ ~Inserting(t)
    /\ \A t \in Passes : \A u \in Passes \ {t} : ~(Inserting(t) /\ Inserting(u))

\* A lookup waits for the read lock while a pass is between two inserts and
\* the other pass waits for the write lock.
C28_LookupWaitsMidPass ==
    /\ \E t \in Passes : MidPass(t)
    /\ \E t \in Passes : Threads.pc[t] = "decoded"
    /\ \A r \in Readers : Threads.pc[r] = "called"

\* A lookup read the cache between two whole passes.
C28_LookupBetweenPasses ==
    /\ op.name = "get"
    /\ \E t \in Passes : Threads.result[t] = Some("Ok")
    /\ \E t \in Passes : Threads.pc[t] = "decoded"
    /\ IsSome(ret)
    /\ IsSome(Unwrap(ret).result)

-----------------------------------------------------------------------------
\* Request bytes that do not decode.

DecodeError == Some("Err: Failed to decode CodeGeneratorRequest")

\* C29: a preprocess_request_bytes call on bytes that cannot be decoded
\* returns an error without touching the cache, every map holding exactly
\* the entries it held before the call, and the write lock is not left
\* held: the call's one step leaves the cache and the lock as they were and
\* the caller never is the lock's writer.
C29_DecodeErrorLeavesCache ==
    [][\A t \in Passes :
          (/\ Unwrap(proc).pc[t] = "called"
           /\ ~input[1][t].decodable
           /\ Unwrap(proc').pc[t] # "called")
          => /\ Unwrap(proc').pc[t] = "returned"
             /\ Unwrap(proc').result[t] = DecodeError
             /\ cache' = cache
             /\ Unwrap(proc').lock = Unwrap(proc).lock
             /\ Unwrap(proc').lock.writer # Some(t)]_vars

\* A pass returned the decode error while the cache held the entries of an
\* earlier pass, which are all still there, and the lock is free.
C29_ErrorAfterWholePass ==
    /\ op.name = "decode"
    /\ \E t \in Passes :
           /\ op.args = <<t>>
           /\ Threads.result[t] = DecodeError
           /\ \E u \in Passes \ {t} :
                  /\ Threads.result[u] = Some("Ok")
                  /\ cache = ApplyInserts(OptionsCacheDefault,
                                          inserts_of_request(input[1][u]))
    /\ cache # OptionsCacheDefault
    /\ Threads.lock.writer = None

=============================================================================
